---------------------------- MODULE Spec2Model ----------------------------
(***************************************************************************)
(* Model of the document workflow engine of cimulink/ai-workflow-engine.   *)
(*                                                                         *)
(* The engine (src/engine.py) is a LangGraph StateGraph                    *)
(*     intake -> extract_data -> {await_human_review | finalize}           *)
(* compiled with a SQLite checkpointer and interrupt_after =               *)
(* ["await_human_review"].  run_workflow starts a thread, resume_workflow  *)
(* optionally merges corrections with update_state and continues the       *)
(* thread with stream(None).                                               *)
(*                                                                         *)
(* The AG-UI servers (src/backend/ag_ui_server.py and                      *)
(* src/backend/ag_ui_server_pure_langgraph.py) keep a row per workflow, an *)
(* event log and a review queue in the tables of src/shared/database.py;   *)
(* the review endpoints approve and reject work on those rows.             *)
(*                                                                         *)
(* Python values are modelled as tagged records, strings as sequences of   *)
(* one-character strings (so that replace(), lower(), float() and the      *)
(* substring test are computed, not assumed), dicts as sequences of        *)
(* key/value pairs in insertion order.  Amounts are kept in hundredths.    *)
(***************************************************************************)
EXTENDS Integers, Sequences, FiniteSets, TLC

(***************************************************************************)
(* Python values                                                           *)
(***************************************************************************)
None == [t |-> "none", n |-> 0, s |-> <<>>]
Num(c) == [t |-> "num", n |-> c, s |-> <<>>]
Str(q) == [t |-> "str", n |-> 0, s |-> q]

\* bool(v): None, 0 and "" are falsy.
Truthy(v) ==
  CASE v.t = "none" -> FALSE
    [] v.t = "num" -> v.n # 0
    [] v.t = "str" -> v.s # <<>>

\* dict: a sequence of [k, v] pairs with distinct keys, in insertion order.
Pair(k, v) == [k |-> k, v |-> v]
Has(d, k) == \E i \in 1..Len(d) : d[i].k = k
Get(d, k) == IF Has(d, k) THEN d[CHOOSE i \in 1..Len(d) : d[i].k = k].v ELSE None
Put(d, k, v) ==
  IF Has(d, k) THEN [i \in 1..Len(d) |-> IF d[i].k = k THEN Pair(k, v) ELSE d[i]]
  ELSE Append(d, Pair(k, v))

RECURSIVE Update(_, _)
\* d.update(u): every key of u overwrites in place or is appended.
Update(d, u) == IF u = <<>> THEN d ELSE Update(Put(d, Head(u).k, Head(u).v), Tail(u))

\* state["extracted_data"] is None or a dict.
NoData == [isNone |-> TRUE, items |-> <<>>]
Data(d) == [isNone |-> FALSE, items |-> d]

(***************************************************************************)
(* Strings                                                                 *)
(***************************************************************************)
UpperAlpha == <<"A","B","C","D","E","F","G","H","I","J","K","L","M",
                "N","O","P","Q","R","S","T","U","V","W","X","Y","Z">>
LowerAlpha == <<"a","b","c","d","e","f","g","h","i","j","k","l","m",
                "n","o","p","q","r","s","t","u","v","w","x","y","z">>
DigitChars == <<"0","1","2","3","4","5","6","7","8","9">>

LowerChar(c) ==
  IF \E i \in 1..Len(UpperAlpha) : UpperAlpha[i] = c
  THEN LowerAlpha[CHOOSE i \in 1..Len(UpperAlpha) : UpperAlpha[i] = c]
  ELSE c
\* str.lower()
Lower(q) == [i \in 1..Len(q) |-> LowerChar(q[i])]
\* sub in q
Contains(q, sub) ==
  \E i \in 1..(Len(q) - Len(sub) + 1) : SubSeq(q, i, i + Len(sub) - 1) = sub
\* q.replace(c, "")
Remove(q, c) == SelectSeq(q, LAMBDA x : x # c)

IsDigit(c) == \E i \in 1..Len(DigitChars) : DigitChars[i] = c
DigitVal(c) == (CHOOSE i \in 1..Len(DigitChars) : DigitChars[i] = c) - 1

RECURSIVE DigitsToNat(_)
DigitsToNat(q) ==
  IF q = <<>> THEN 0 ELSE DigitsToNat(SubSeq(q, 1, Len(q) - 1)) * 10 + DigitVal(q[Len(q)])

\* float(q) over the alphabet digits, ".", "$", "," and letters: it gives a
\* number iff q is digits with at most one "." and at least one digit, and
\* the value is kept in hundredths (inputs carry at most two fractional
\* digits).  Of the words float() reads, "nan" in any case is modelled (the
\* inputs hold no "inf", no sign and no exponent); every other text raises
\* ValueError.
IsNan(q) == Lower(q) = <<"n", "a", "n">>
FloatOk(q) ==
  /\ \A i \in 1..Len(q) : IsDigit(q[i]) \/ q[i] = "."
  /\ Cardinality({i \in 1..Len(q) : q[i] = "."}) <= 1
  /\ \E i \in 1..Len(q) : IsDigit(q[i])
FloatVal(q) ==
  LET dot == IF \E i \in 1..Len(q) : q[i] = "."
             THEN CHOOSE i \in 1..Len(q) : q[i] = "." ELSE Len(q) + 1
      ip == SubSeq(q, 1, dot - 1)
      fp == SubSeq(q, dot + 1, Len(q))
      f2 == SubSeq(fp \o <<"0", "0">>, 1, 2)
  IN DigitsToNat(ip) * 100 + DigitsToNat(f2)

\* str(amount).replace("$", "").replace(",", "")
AmountText(v) == Remove(Remove(v.s, "$"), ",")
\* float(str(amount)...) raises ValueError
AmountRaises(v) == v.t = "str" /\ ~FloatOk(AmountText(v)) /\ ~IsNan(AmountText(v))
\* float(str(amount)...) is nan: every comparison with it is False
AmountIsNan(v) == v.t = "str" /\ IsNan(AmountText(v))
\* float(str(amount)...) for a number is the number itself
NumericAmount(v) == IF v.t = "num" THEN v.n ELSE FloatVal(AmountText(v))

AmountThreshold == 1000


(***************************************************************************)
(* Validation router and review reasons (src/engine.py)                    *)
(***************************************************************************)
\* One reason; field names the key of a generic "Missing or empty field: k".
Reason(m) == [msg |-> m, field |-> ""]
FieldReason(m, k) == [msg |-> m, field |-> k]

\* extracted_data.get(k, "").lower() raises AttributeError when the key is
\* present with a value that is not a str (None, a number).
LowerRaises(d, k) == Has(d, k) /\ Get(d, k).t # "str"
LowerOf(d, k) == IF Has(d, k) THEN Lower(Get(d, k).s) ELSE <<>>

Security == <<"s","e","c","u","r","i","t","y">>
Vulnerability == <<"v","u","l","n","e","r","a","b","i","l","i","t","y">>
Irate == <<"i","r","a","t","e">>

\* Variant that does not look for the error marker.
NoValidDataLax(x) == x.isNone \/ x.items = <<>>

\* not extracted_data or "error" in extracted_data
NoValidData(x) == x.isNone \/ x.items = <<>> \/ Has(x.items, "error")

\* Variant that takes an empty vendor name for a name.
MissingVendorNullOnly(d) ==
  IF Get(d, "vendor_name") = None THEN <<Reason("Missing vendor name")>> ELSE <<>>

MissingVendor(d) ==
  IF ~Truthy(Get(d, "vendor_name")) THEN <<Reason("Missing vendor name")>> ELSE <<>>
MissingInvoiceId(d) ==
  IF ~Truthy(Get(d, "invoice_id")) THEN <<Reason("Missing invoice ID")>> ELSE <<>>

\* Variant with the threshold one cent higher: 1000.01 passes.
RouterAmountReasonsLax(d) ==
  LET amount == Get(d, "total_amount") IN
  IF Truthy(amount)
  THEN IF AmountRaises(amount) THEN <<Reason("Invalid amount format")>>
       ELSE IF AmountIsNan(amount) \/ ~(NumericAmount(amount) <= AmountThreshold * 100 + 1)
            THEN <<Reason("Amount exceeds $1000 threshold")>>
            ELSE <<>>
  ELSE <<>>

\* Amount threshold check of the router: an unparsable amount is a reason, and
\* so is nan, for which numeric_amount <= 1000 is False.
RouterAmountReasons(d) ==
  LET amount == Get(d, "total_amount") IN
  IF Truthy(amount)
  THEN IF AmountRaises(amount) THEN <<Reason("Invalid amount format")>>
       ELSE IF AmountIsNan(amount) \/ ~(NumericAmount(amount) <= AmountThreshold * 100)
            THEN <<Reason("Amount exceeds $1000 threshold")>>
            ELSE <<>>
  ELSE <<>>

TicketRaises(d) == LowerRaises(d, "sentiment") \/ LowerRaises(d, "topic")
TicketReasons(d) ==
  (IF LowerOf(d, "sentiment") = Irate
   THEN <<Reason("Customer sentiment is irate")>> ELSE <<>>)
  \o (IF Contains(LowerOf(d, "topic"), Security)
         \/ Contains(LowerOf(d, "topic"), Vulnerability)
      THEN <<Reason("Security-related issue")>> ELSE <<>>)

RECURSIVE EmptyFields(_)
\* keys whose value is None or "", in dict order
EmptyFields(d) ==
  IF d = <<>> THEN <<>>
  ELSE (IF Head(d).v = None \/ Head(d).v = Str(<<>>) THEN <<Head(d).k>> ELSE <<>>)
       \o EmptyFields(Tail(d))
GenericReasons(d) ==
  [i \in 1..Len(EmptyFields(d)) |->
     FieldReason("Missing or empty field", EmptyFields(d)[i])]

\* Variant that looks for the sentiment first.
DocKindTicketFirst(d) ==
  IF Has(d, "sentiment") THEN "ticket"
  ELSE IF Has(d, "total_amount") THEN "invoice" ELSE "generic"

\* The rule family a dict falls in.
DocKind(d) ==
  IF Has(d, "total_amount") THEN "invoice"
  ELSE IF Has(d, "sentiment") THEN "ticket" ELSE "generic"

\* validation_router raises (AttributeError from .lower())
RouterRaises(x) ==
  ~NoValidData(x) /\ DocKind(x.items) = "ticket" /\ TicketRaises(x.items)

\* Variant that checks the amount of an invoice before its other fields.
RouterReasonsAmountFirst(x) ==
  IF NoValidData(x) THEN <<Reason("Missing or invalid data")>>
  ELSE CASE DocKind(x.items) = "invoice" ->
              RouterAmountReasons(x.items) \o MissingVendor(x.items)
                \o MissingInvoiceId(x.items)
         [] DocKind(x.items) = "ticket" -> TicketReasons(x.items)
         [] DocKind(x.items) = "generic" -> GenericReasons(x.items)

\* The reasons list of validation_router when it returns.
RouterReasons(x) ==
  IF NoValidData(x) THEN <<Reason("Missing or invalid data")>>
  ELSE CASE DocKind(x.items) = "invoice" ->
              MissingVendor(x.items) \o MissingInvoiceId(x.items)
                \o RouterAmountReasons(x.items)
         [] DocKind(x.items) = "ticket" -> TicketReasons(x.items)
         [] DocKind(x.items) = "generic" -> GenericReasons(x.items)

\* Variant that lets dicts with reasons through when no field is missing.
validation_router_lenient(state) ==
  IF NoValidData(state.extracted_data) THEN "await_human_review"
  ELSE IF EmptyFields(state.extracted_data.items) # <<>> THEN "await_human_review"
  ELSE "finalize"

\* validation_router(state): the name of the next node.
validation_router(state) ==
  IF NoValidData(state.extracted_data) THEN "await_human_review"
  ELSE IF RouterReasons(state.extracted_data) # <<>> THEN "await_human_review"
  ELSE "finalize"

\* await_human_review_node recomputes the reasons; its amount test is not
\* guarded, so float() raising ValueError escapes the node.  It tests
\* float(...) > 1000, which is False for nan.
AwaitAmountReasons(d) ==
  IF Truthy(Get(d, "total_amount"))
     /\ ~AmountIsNan(Get(d, "total_amount"))
     /\ NumericAmount(Get(d, "total_amount")) > AmountThreshold * 100
  THEN <<Reason("Amount exceeds $1000 threshold")>> ELSE <<>>

AwaitRaises(x) ==
  /\ ~NoValidData(x)
  /\ \/ /\ DocKind(x.items) = "invoice"
        /\ Truthy(Get(x.items, "total_amount"))
        /\ AmountRaises(Get(x.items, "total_amount"))
     \/ DocKind(x.items) = "ticket" /\ TicketRaises(x.items)

AwaitReasons(x) ==
  IF NoValidData(x) THEN <<Reason("Missing or invalid extracted data")>>
  ELSE CASE DocKind(x.items) = "invoice" ->
              MissingVendor(x.items) \o MissingInvoiceId(x.items)
                \o AwaitAmountReasons(x.items)
         [] DocKind(x.items) = "ticket" -> TicketReasons(x.items)
         [] DocKind(x.items) = "generic" -> GenericReasons(x.items)

\* "; ".join(reasons) if reasons else "Unknown validation issue"; the joined
\* text is kept as the sequence of its parts.
ReasonText(reasons) ==
  IF reasons # <<>> THEN reasons ELSE <<Reason("Unknown validation issue")>>

\* state["reason_for_review"]: None or a text
NoReason == [isNone |-> TRUE, parts |-> <<>>]
ReasonFor(parts) == [isNone |-> FALSE, parts |-> parts]

(***************************************************************************)
(* Workflow state and nodes (src/engine.py)                                *)
(***************************************************************************)
\* One workflow_history line: its fixed text, its timestamp and what it quotes.
Entry(kind, at, parts, err) == [kind |-> kind, at |-> at, parts |-> parts, err |-> err]

\* Variant that starts a run with an empty text as its reason.
InitialStateWithReason(id, content, t) ==
  [id |-> id, content |-> content, status |-> "received",
   extracted_data |-> NoData, workflow_history |-> <<>>,
   reason_for_review |-> ReasonFor(<<>>), created_at |-> t, updated_at |-> t]

\* WorkflowState(...) as run_workflow builds it
InitialState(id, content, t) ==
  [id |-> id, content |-> content, status |-> "received",
   extracted_data |-> NoData, workflow_history |-> <<>>,
   reason_for_review |-> NoReason, created_at |-> t, updated_at |-> t]

intake_node(state, t) ==
  [state EXCEPT !.status = "processing",
                !.workflow_history = Append(@, Entry("Document received", t, <<>>, "")),
                !.updated_at = t]

\* The LLM call and the JSON parse of its answer: out.kind is
\*   "json"    the answer parses to the dict out.data,
\*   "nojson"  the answer holds no JSON object,
\*   "raise"   the call (or the fallback json.loads) raises.
extract_data_node(state, t, out) ==
  CASE out.kind = "json" ->
         [state EXCEPT !.extracted_data = Data(out.data),
                       !.workflow_history = Append(@, Entry("Data extracted", t, <<>>, "")),
                       !.updated_at = t]
    [] out.kind = "nojson" ->
         [state EXCEPT !.extracted_data =
                          Data(<<Pair("error", Str(<<"F">>))>>),
                       !.workflow_history = Append(@, Entry("Data extracted", t, <<>>, "")),
                       !.updated_at = t]
    [] out.kind = "raise" ->
         [state EXCEPT !.extracted_data =
                          Data(<<Pair("error", Str(<<"E">>))>>),
                       !.workflow_history =
                          Append(@, Entry("Extraction failed", t, <<>>, "Error during extraction")),
                       !.status = "error"]

\* Variant that pauses without a workflow_history line.
await_human_review_node_silent(state, t) ==
  LET reason_text == ReasonText(AwaitReasons(state.extracted_data)) IN
  [state EXCEPT !.status = "pending_review",
                !.reason_for_review = ReasonFor(reason_text),
                !.updated_at = t]

await_human_review_node(state, t) ==
  LET reason_text == ReasonText(AwaitReasons(state.extracted_data)) IN
  [state EXCEPT !.status = "pending_review",
                !.reason_for_review = ReasonFor(reason_text),
                !.workflow_history =
                   Append(@, Entry("Workflow paused for human review", t, reason_text, "")),
                !.updated_at = t]

finalize_node(state, t) ==
  [state EXCEPT !.status = "finalized",
                !.workflow_history = Append(@, Entry("Workflow finalized", t, <<>>, "")),
                !.updated_at = t]

(***************************************************************************)
(* Inputs                                                                  *)
(***************************************************************************)
RunIds == {"r1", "r2"}
Procs == {"p1", "p2"}
Contents == {"docA", "docB"}

\* Bound of the model: calls started in a behaviour.  The clock ticks when a
\* call starts, so it also bounds the timestamps.
MaxCalls == 2

Acme == Str(<<"A","c","m","e">>)
InvId == Str(<<"I","N","V","-","1">>)
Happy == Str(<<"H","a","p","p","y">>)
IrateCap == Str(<<"I","r","a","t","e">>)
Billing == Str(<<"b","i","l","l">>)

Invoice(vendor, inv, amount) ==
  <<Pair("vendor_name", vendor), Pair("invoice_id", inv), Pair("total_amount", amount)>>
Ticket(sentiment, topic) == <<Pair("sentiment", sentiment), Pair("topic", topic)>>

\* Dicts the extraction capability may answer with.
SampleDicts ==
  { Invoice(Acme, InvId, Num(50000)),
    Invoice(Acme, InvId, Num(100000)),
    Invoice(Acme, InvId, Str(<<"$","1",",","0","0","0",".","0","1">>)),
    Invoice(None, InvId, Num(500000)),
    Invoice(Acme, InvId, Str(<<"a","b","c">>)),
    Ticket(IrateCap, Billing),
    Ticket(None, Billing) }

LLMOutcomes ==
  [kind : {"json"}, data : SampleDicts]
    \cup {[kind |-> "nojson", data |-> <<>>], [kind |-> "raise", data |-> <<>>]}

\* Corrections a reviewer may pass to resume (the empty dict is "none").
Corrections ==
  { <<>>,
    <<Pair("total_amount", Num(50000))>>,
    <<Pair("total_amount", Num(500000))>>,
    <<Pair("vendor_name", Acme)>>,
    <<Pair("sentiment", Happy)>> }

\* What the extraction answers and what a reviewer corrects in the streamed
\* runs: an invoice that passes, one over the threshold, an exception.
StreamOutcomes ==
  { [kind |-> "json", data |-> Invoice(Acme, InvId, Num(50000))],
    [kind |-> "json", data |-> Invoice(Acme, InvId, Num(500000))],
    [kind |-> "raise", data |-> <<>>] }
StreamCorrections == { <<>>, <<Pair("total_amount", Num(50000))>> }

(***************************************************************************)
(* State                                                                   *)
(***************************************************************************)
VARIABLES
  checkpoints,   \* thread id -> the checkpoints written for it, oldest first
  call,          \* process -> the run_workflow / resume_workflow call in flight
  ret,           \* what the call that returned last handed back
  now,           \* the clock datetime.now() reads; it ticks at every call
  rows,          \* workflow id -> its row of table ag_ui_workflows
  events,        \* workflow id -> its rows of table ag_ui_events, oldest first
  review_queue,  \* the workflow ids of table ag_ui_review_queue
  srv,           \* the agent run the server is streaming
  resp,          \* what the server request that ended last answered
  app,           \* the run whose stream_callback the shared workflow's app holds
  threads,       \* workflow id -> latest checkpoint of ./checkpoints/agui_workflow.db
  tasks,         \* workflow id -> its run_streaming_workflow generator and task
  queue,         \* workflow id -> everything put on its event_queue, oldest first
  taken,         \* workflow id -> how many items its consumer has got
  probe,         \* one extracted_data under the router and the review node
  saver,         \* an AGUIStreamingCheckpointer: its table and what it emitted
  log            \* one streamed run of the pure server: its events, saved and yielded

vars == <<checkpoints, call, ret, now, rows, events, review_queue, srv, resp,
         app, threads, tasks, queue, taken, probe, saver, log>>
partVars == <<probe, saver, log>>
streamVars == <<app, threads, tasks, queue, taken>>
serverVars == <<rows, events, review_queue, srv, resp>>
engineVars == <<checkpoints, call, ret>>

NullState == InitialState("", "", 0)

\* A checkpoint: the channel values, the node the graph runs next and the
\* node whose writes it records.
Checkpoint(values, next, last) == [values |-> values, next |-> next, last |-> last]

HasCheckpoint(id) == checkpoints[id] # <<>>
Latest(id) == checkpoints[id][Len(checkpoints[id])]
\* app.get_state(config).values
get_state(id) == IF HasCheckpoint(id) THEN Latest(id).values ELSE NullState

\* A row of ag_ui_workflows, which is also the AgentState it is saved from
\* (workflow_history, which has no column, and validation_result left out).
NoRow ==
  [present |-> FALSE, workflow_id |-> "", status |-> "", current_step |-> "",
   document_content |-> "", extracted_data |-> NoData,
   human_review_required |-> FALSE, error_message |-> "",
   created_at |-> 0, updated_at |-> 0]

IdleRun == [agent |-> "", pc |-> "idle", state |-> NoRow]
NoResponse == [op |-> "none", id |-> "", code |-> "", before |-> NoRow, after |-> NoRow]

\* What is known of the call that ended last, when a call starts.
NoPrev == [op |-> "none", ok |-> FALSE, values |-> NullState, next |-> "", mem |-> FALSE]

IdleCall ==
  [op |-> "idle", id |-> "", pc |-> "idle", vals |-> NullState, next |-> "",
   upd |-> <<>>, before |-> NullState, hadCheckpoint |-> FALSE,
   nBefore |-> 0, executed |-> <<>>, mem |-> FALSE, kept |-> 0, prev |-> NoPrev]

NoReturn ==
  [op |-> "none", id |-> "", ok |-> FALSE, values |-> NullState, upd |-> <<>>,
   before |-> NullState, hadCheckpoint |-> FALSE, nBefore |-> 0,
   executed |-> <<>>, raisedIn |-> "", stored |-> NullState, nAfter |-> 0,
   next |-> "", mem |-> FALSE, prev |-> NoPrev]

\* What a call hands back: ok is the truth value of the returned object
\* (None and {} are falsy), raisedIn names the step whose exception ended it.
\* before/nBefore and stored/nAfter record the thread's latest checkpoint and
\* its number of checkpoints when the call started and when it returned, as
\* the call's own checkpointer sees them.  mem: the call's checkpointer is the
\* in-memory fallback; prev: the call that ended before this one, when it was
\* for the same thread; next: the node the call would have run next.
Return(c, ok, values, raisedIn) ==
  [op |-> c.op, id |-> c.id, ok |-> ok, values |-> values, upd |-> c.upd,
   before |-> c.before, hadCheckpoint |-> c.hadCheckpoint, nBefore |-> c.nBefore,
   executed |-> c.executed, raisedIn |-> raisedIn,
   stored |-> get_state(c.id), nAfter |-> Len(checkpoints[c.id]) - c.kept + c.nBefore,
   next |-> c.next, mem |-> c.mem, prev |-> c.prev]

\* AGUIWorkflowState as run_streaming_workflow builds it, without its texts
\* and timestamps.
AguiInitial ==
  [status |-> "received", current_step |-> "start",
   extracted_data |-> NoData, human_review_required |-> FALSE]
NoThread == [present |-> FALSE, values |-> AguiInitial, next |-> "", last |-> ""]
NoTask == [pc |-> "none", app |-> "", vals |-> AguiInitial, next |-> ""]

\* No data is under the router.
NoProbe == [pc |-> "none", rules |-> "", data |-> NoData, next |-> "",
            reasons |-> <<>>, status |-> "", reason |-> NoReason, raisedIn |-> ""]

\* Nothing has run yet.
Started ==
  /\ checkpoints = [id \in RunIds |-> <<>>]
  /\ call = [p \in Procs |-> IdleCall]
  /\ ret = NoReturn
  /\ now = 1
  /\ rows = [id \in RunIds |-> NoRow]
  /\ events = [id \in RunIds |-> <<>>]
  /\ review_queue = {}
  /\ srv = IdleRun
  /\ resp = NoResponse
  /\ app = ""
  /\ threads = [id \in RunIds |-> NoThread]
  /\ tasks = [id \in RunIds |-> NoTask]
  /\ queue = [id \in RunIds |-> <<>>]
  /\ taken = [id \in RunIds |-> 0]

\* A checkpointer that has saved nothing; a run that has streamed nothing.
NoSaver == [written |-> <<>>, emitted |-> <<>>, calls |-> 0,
            last |-> [wrote |-> FALSE, callback |-> "none", raised |-> FALSE]]
NoLog == [pc |-> "stream", stored |-> <<>>, yielded |-> <<>>, read |-> <<>>]

Init == Started /\ probe = NoProbe /\ saver = NoSaver /\ log = NoLog

(***************************************************************************)
(* The compiled graph (create_workflow, interrupt_after)                   *)
(***************************************************************************)
\* Variant compiled without interrupt_after.
NoInterrupt == {}

InterruptAfter == {"await_human_review"}

\* Variant of the graph whose edge out of await_human_review is fixed.
NextNodeApproved(node, state) ==
  CASE node = "__start__" -> "intake"
    [] node = "intake" -> "extract_data"
    [] node = "extract_data" -> validation_router(state)
    [] node = "await_human_review" -> "finalize"
    [] node = "finalize" -> "END"

\* The node the graph schedules after `node` has written `state`: the fixed
\* edges and the two conditional edges through validation_router.
NextNode(node, state) ==
  CASE node = "__start__" -> "intake"
    [] node = "intake" -> "extract_data"
    [] node \in {"extract_data", "await_human_review"} -> validation_router(state)
    [] node = "finalize" -> "END"

\* The router runs with the writes of the node it follows; when it raises the
\* whole step fails.
BranchRaises(node, state) ==
  node \in {"extract_data", "await_human_review"} /\ RouterRaises(state.extracted_data)

\* Variant of a step that goes on without saving a checkpoint.
AdvanceUnsaved(p, node, new) ==
  LET next == NextNode(node, new) IN
  /\ call' = [call EXCEPT ![p].vals = new,
                          ![p].next = next,
                          ![p].executed = Append(@, node),
                          ![p].pc = IF node \in InterruptAfter \/ next = "END"
                                    THEN "final" ELSE "loop"]
  /\ UNCHANGED <<checkpoints, ret, now>>
  /\ UNCHANGED <<serverVars, streamVars, partVars>>

\* A step of the stream completes: the writes are applied and checkpointed;
\* the stream stops after a node of interrupt_after or when nothing is next.
Advance(p, node, new) ==
  LET next == NextNode(node, new) IN
  /\ checkpoints' = [checkpoints EXCEPT ![call[p].id] = Append(@, Checkpoint(new, next, node))]
  /\ call' = [call EXCEPT ![p].vals = new,
                          ![p].next = next,
                          ![p].executed = Append(@, node),
                          ![p].pc = IF node \in InterruptAfter \/ next = "END"
                                    THEN "final" ELSE "loop"]
  /\ UNCHANGED <<ret, now>>
  /\ UNCHANGED <<serverVars, streamVars, partVars>>

\* The checkpoints of the threads once call c is over: what an in-memory
\* checkpointer holds goes with the call, the file keeps what it had.
Surviving(c) ==
  IF c.mem THEN [checkpoints EXCEPT ![c.id] = SubSeq(@, 1, c.kept)]
  ELSE checkpoints

\* A step raises: nothing is written, the exception leaves stream() and the
\* except clause of run_workflow / resume_workflow returns None.
Raise(p, where) ==
  /\ ret' = Return(call[p], FALSE, NullState, where)
  /\ call' = [call EXCEPT ![p] = IdleCall]
  /\ checkpoints' = Surviving(call[p])
  /\ UNCHANGED now
  /\ UNCHANGED <<serverVars, streamVars, partVars>>

(***************************************************************************)
(* run_workflow and resume_workflow (src/engine.py)                        *)
(***************************************************************************)
\* Processes and thread ids are interchangeable: a call is served by the
\* first idle process, and "r2" (a fresh uuid) is used once "r1" exists.
CanStart(p, id) ==
  /\ call[p].pc = "idle"
  /\ now <= MaxCalls
  /\ \A w \in RunIds : ~rows[w].present
  /\ p = "p2" => call["p1"].pc # "idle"
  /\ id = "r2" => HasCheckpoint("r1")

\* No call is in progress.
AllIdle == \A p \in Procs : call[p].pc = "idle"

\* run_workflow(document_content, document_id) up to the first node: the
\* input is written to the thread and checkpointed, intake is next.
\* dbOk: whether setup_database opens ./checkpoints/workflow.db; when it does
\* not, the checkpointer of the call is a fresh in-memory database.
RunWorkflow(p, id, content, dbOk) ==
  /\ CanStart(p, id)
  /\ content = "docB" => HasCheckpoint(id)   \* documents are interchangeable
  /\ LET initial == InitialState(id, content, now) IN
     /\ checkpoints' = [checkpoints EXCEPT
                          ![id] = Append(@, Checkpoint(initial, "intake", "__start__"))]
     /\ call' = [call EXCEPT ![p] =
                   [IdleCall EXCEPT !.op = "run", !.id = id, !.pc = "loop",
                                    !.vals = initial, !.next = "intake",
                                    !.before = IF dbOk THEN get_state(id) ELSE NullState,
                                    !.hadCheckpoint = dbOk /\ HasCheckpoint(id),
                                    !.nBefore = IF dbOk THEN Len(checkpoints[id]) ELSE 0,
                                    !.kept = Len(checkpoints[id]),
                                    !.mem = ~dbOk]]
  /\ now' = now + 1
  /\ UNCHANGED ret
  /\ UNCHANGED <<serverVars, streamVars, partVars>>

Intake(p) ==
  /\ call[p].pc = "loop" /\ call[p].next = "intake"
  /\ Advance(p, "intake", intake_node(call[p].vals, now))

ExtractData(p, out) ==
  /\ call[p].pc = "loop" /\ call[p].next = "extract_data"
  /\ LET new == extract_data_node(call[p].vals, now, out) IN
     IF BranchRaises("extract_data", new)
     THEN Raise(p, "validation_router")
     ELSE Advance(p, "extract_data", new)

AwaitHumanReview(p) ==
  /\ call[p].pc = "loop" /\ call[p].next = "await_human_review"
  /\ IF AwaitRaises(call[p].vals.extracted_data)
     THEN Raise(p, "await_human_review")
     ELSE LET new == await_human_review_node(call[p].vals, now) IN
          IF BranchRaises("await_human_review", new)
          THEN Raise(p, "validation_router")
          ELSE Advance(p, "await_human_review", new)

\* fileOk: whether open(output_file, 'w') and json.dump succeed.
Finalize(p, fileOk) ==
  /\ call[p].pc = "loop" /\ call[p].next = "finalize"
  /\ IF fileOk
     THEN Advance(p, "finalize", finalize_node(call[p].vals, now))
     ELSE Raise(p, "finalize")

\* The stream is over: the call returns app.get_state(config).values.
ReturnState(p) ==
  /\ call[p].pc = "final"
  /\ ret' = Return(call[p], TRUE, get_state(call[p].id), "")
  /\ call' = [call EXCEPT ![p] = IdleCall]
  /\ checkpoints' = Surviving(call[p])
  /\ UNCHANGED now
  /\ UNCHANGED <<serverVars, streamVars, partVars>>

\* The process of a call stops (crash, kill) between two steps or before it
\* returns: nothing more is written and nothing is handed back.
Crash(p) ==
  /\ call[p].pc \in {"loop", "final"}
  /\ ret' = [Return(call[p], FALSE, call[p].vals, "crash") EXCEPT !.op = "crash"]
  /\ call' = [call EXCEPT ![p] = IdleCall]
  /\ checkpoints' = Surviving(call[p])
  /\ UNCHANGED now
  /\ UNCHANGED <<serverVars, streamVars, partVars>>

\* new_state of resume_workflow: the corrections are merged into a dict
\* extracted_data, one history line is appended, updated_at is set.
MergedState(state, upd, t) ==
  [state EXCEPT !.extracted_data = IF @.isNone THEN @ ELSE Data(Update(@.items, upd)),
                !.workflow_history = Append(@, Entry("Human review completed", t, <<>>, "")),
                !.updated_at = t]

\* Variant of update_state that keeps the pending node instead of
\* evaluating the branch on the new values.
UpdatedCheckpointStale(cur, values) == Checkpoint(values, cur.next, cur.last)

\* app.update_state(config, values): the values are written as the node that
\* wrote last, its branch is evaluated on them, a checkpoint is saved.
UpdatedCheckpoint(cur, values) ==
  Checkpoint(values, NextNode(cur.last, values), cur.last)

\* Variant in which resuming an unknown thread hands back a state.
UnknownThreadResumed(c0, upd) == {Return(c0, TRUE, NullState, "")}

\* resume_workflow on a thread without checkpoints.  get_state returns a
\* snapshot with empty values, which is truthy, so "No workflow found" is not
\* taken: with corrections new_state["workflow_history"] raises KeyError and
\* None is returned; without them stream(None) has nothing to continue, it
\* raises (None is returned) or yields nothing ({} is returned), by version.
UnknownThread(c0, upd) ==
  IF upd # <<>>
  THEN {Return(c0, FALSE, NullState, "update_state")}
  ELSE {Return(c0, FALSE, NullState, "stream"), Return(c0, FALSE, NullState, "")}

\* resume_workflow(document_id, updated_data) up to the first node it runs.
\* noTasks: what stream(None) does when the thread has nothing left to run,
\* by LangGraph version: it raises ("No tasks to run in graph") or it yields
\* nothing.
ResumeWorkflow(p, id, upd, noTasks, dbOk) ==
  /\ CanStart(p, id)
  /\ now' = now + 1
  /\ UNCHANGED <<serverVars, streamVars, partVars>>
  /\ LET c0 == [IdleCall EXCEPT !.op = "resume", !.id = id, !.upd = upd,
                                !.before = IF dbOk THEN get_state(id) ELSE NullState,
                                !.hadCheckpoint = dbOk /\ HasCheckpoint(id),
                                !.nBefore = IF dbOk THEN Len(checkpoints[id]) ELSE 0,
                                !.kept = Len(checkpoints[id]),
                                !.mem = ~dbOk,
                                !.prev = IF ret.id = id /\ ret.op \in {"run", "crash"}
                                         THEN [op |-> ret.op, ok |-> ret.ok,
                                               values |-> ret.values,
                                               next |-> ret.next, mem |-> ret.mem]
                                         ELSE NoPrev]
     IN
     IF ~dbOk
     THEN /\ noTasks = "raise"
          /\ ret' \in {[r EXCEPT !.stored = NullState] : r \in UnknownThread(c0, upd)}
          /\ UNCHANGED <<checkpoints, call>>
     ELSE IF ~HasCheckpoint(id)
     THEN /\ noTasks = "raise"
          /\ ret' \in UnknownThread(c0, upd)
          /\ UNCHANGED <<checkpoints, call>>
     ELSE LET cur == Latest(id)
              merged == MergedState(cur.values, upd, now)
          IN
          IF upd # <<>> /\ BranchRaises(cur.last, merged)
          THEN /\ noTasks = "raise"
               /\ ret' = Return(c0, FALSE, NullState, "update_state")
               /\ UNCHANGED <<checkpoints, call>>
          ELSE LET cp == IF upd # <<>> THEN UpdatedCheckpoint(cur, merged) ELSE cur
                   written == IF upd # <<>> THEN Append(checkpoints[id], cp)
                              ELSE checkpoints[id]
               IN
               /\ checkpoints' = [checkpoints EXCEPT ![id] = written]
               /\ IF cp.next = "END"
                  THEN IF noTasks = "raise"
                       THEN /\ ret' = [Return(c0, FALSE, NullState, "stream")
                                        EXCEPT !.stored = cp.values,
                                               !.nAfter = Len(written)]
                            /\ UNCHANGED call
                       ELSE /\ call' = [call EXCEPT ![p] =
                                         [c0 EXCEPT !.pc = "final",
                                                    !.vals = cp.values, !.next = cp.next]]
                            /\ UNCHANGED ret
                  ELSE /\ noTasks = "raise"
                       /\ call' = [call EXCEPT ![p] =
                                     [c0 EXCEPT !.pc = "loop",
                                                !.vals = cp.values, !.next = cp.next]]
                       /\ UNCHANGED ret

(***************************************************************************)
(* The AG-UI tables (src/shared/database.py, src/shared/types.py)          *)
(***************************************************************************)
\* The fields DocumentExtractedData declares, in declaration order.
Fields ==
  <<"vendor_name", "invoice_id", "due_date", "total_amount", "customer_name",
    "email", "topic", "sentiment", "urgency", "document_type",
    "confidence_score", "extraction_timestamp">>
FloatFields == {"total_amount", "confidence_score"}

\* Validation of one field: Optional[float] takes a number or a text float()
\* parses, Optional[str] takes a text; anything else is a ValidationError.
FieldRaises(k, v) ==
  IF k \in FloatFields THEN v.t = "str" /\ ~FloatOk(v.s) ELSE v.t = "num"
FieldValue(k, v) ==
  IF k \in FloatFields /\ v.t = "str" THEN Num(FloatVal(v.s)) ELSE v
ExtractedRaises(d) ==
  \E i \in 1..Len(Fields) : Has(d, Fields[i]) /\ FieldRaises(Fields[i], Get(d, Fields[i]))
\* DocumentExtractedData(**d).model_dump(): every declared field, None where
\* d has no such key; keys that are not declared are dropped.
DocumentExtractedData(d) ==
  [i \in 1..Len(Fields) |-> Pair(Fields[i], FieldValue(Fields[i], Get(d, Fields[i])))]

\* save_agent_state: INSERT OR REPLACE of the whole row.
save_agent_state(state) ==
  [rows EXCEPT ![state.workflow_id] = [state EXCEPT !.present = TRUE]]
\* add_workflow_event
add_workflow_event(id, type) == [events EXCEPT ![id] = Append(@, type)]

\* Variant in which the stored state always loads.
AgentStateLoads(id) == FALSE

\* get_agent_state(id) returns None without a row.  With a row it builds
\* AgentState(**data) after data['workflow_history'] has been set to the
\* WorkflowEvent objects of the workflow (database.py:133); the field is
\* declared List[str] (types.py:100), so validation raises as soon as the
\* workflow has one event.
AgentStateRaises(id) == rows[id].present /\ events[id] # <<>>
get_agent_state(id) == rows[id]

Response(op, id, code, after) ==
  [op |-> op, id |-> id, code |-> code, before |-> rows[id], after |-> after]

(***************************************************************************)
(* DocumentWorkflowAgent and the review endpoints                          *)
(* (src/backend/ag_ui_server.py)                                           *)
(***************************************************************************)
\* A request may start: requests count as calls.  The engine's checkpoint
\* store and the servers' tables are separate stores and no operation touches
\* both, so a behaviour drives the engine or the servers, not both.
CanRequest == now <= MaxCalls /\ \A w \in RunIds : ~HasCheckpoint(w)

\* A fresh workflow id (uuid4): ids are interchangeable, "r1" is drawn first.
FreshId(id) == ~rows[id].present /\ (id = "r2" => rows["r1"].present)

\* run() up to RUN_STARTED: the initial AgentState is saved.
AgentRun(id, content) ==
  /\ CanRequest /\ srv.pc = "idle" /\ FreshId(id)
  /\ content = "docA"                       \* documents are interchangeable
  /\ LET state == [NoRow EXCEPT !.present = TRUE, !.workflow_id = id,
                                !.status = "received",
                                !.current_step = "initialization",
                                !.document_content = content,
                                !.created_at = now, !.updated_at = now]
     IN /\ rows' = save_agent_state(state)
        /\ srv' = [agent |-> "wrapper", pc |-> "intake", state |-> state]
  /\ now' = now + 1
  /\ UNCHANGED <<events, review_queue, resp>>
  /\ UNCHANGED <<engineVars, streamVars, partVars>>

\* execute_workflow_stream, step 1: status processing is saved and the
\* INTAKE_STARTED event is added.
AgentIntake ==
  /\ srv.agent = "wrapper" /\ srv.pc = "intake"
  /\ LET state == [srv.state EXCEPT !.status = "processing",
                                    !.current_step = "intake",
                                    !.updated_at = now]
     IN /\ rows' = save_agent_state(state)
        /\ events' = add_workflow_event(state.workflow_id, "INTAKE_STARTED")
        /\ srv' = [srv EXCEPT !.pc = "extract", !.state = state]
  /\ UNCHANGED <<now, review_queue, resp>>
  /\ UNCHANGED <<engineVars, streamVars, partVars>>

\* stream_data_extraction: extract_data_node of the engine runs on a mock
\* state; the dict is saved when it has no "error" key and validates as
\* DocumentExtractedData, otherwise only a message is emitted.
AgentExtract(out) ==
  /\ srv.agent = "wrapper" /\ srv.pc = "extract"
  /\ LET legacy_state ==
           [InitialState(srv.state.workflow_id, srv.state.document_content, now)
              EXCEPT !.status = "processing"]
         d == extract_data_node(legacy_state, now, out).extracted_data.items
         state == [srv.state EXCEPT
                     !.extracted_data = Data(DocumentExtractedData(d)),
                     !.current_step = "extraction_complete",
                     !.updated_at = now]
     IN IF ~Has(d, "error") /\ ~ExtractedRaises(d)
        THEN /\ rows' = save_agent_state(state)
             /\ srv' = [srv EXCEPT !.pc = "reload", !.state = state]
        ELSE /\ srv' = [srv EXCEPT !.pc = "reload"]
             /\ UNCHANGED rows
  /\ UNCHANGED <<now, events, review_queue, resp>>
  /\ UNCHANGED <<engineVars, streamVars, partVars>>

\* execute_workflow_stream reloads the state with get_agent_state before it
\* validates.  The load raises (the workflow has its INTAKE_STARTED event),
\* run() catches it, adds an ERROR event and emits RUN_ERROR.
AgentReload ==
  /\ srv.agent = "wrapper" /\ srv.pc = "reload"
  /\ LET id == srv.state.workflow_id IN
     IF AgentStateRaises(id)
     THEN /\ events' = add_workflow_event(id, "ERROR")
          /\ resp' = Response("run", id, "RUN_ERROR", rows[id])
          /\ srv' = IdleRun
     ELSE /\ srv' = [srv EXCEPT !.pc = "validate"]
          /\ UNCHANGED <<events, resp>>
  /\ UNCHANGED <<now, rows, review_queue>>
  /\ UNCHANGED <<engineVars, streamVars, partVars>>

\* finalize_workflow(state)
finalize_workflow(state) ==
  [state EXCEPT !.status = "finalized", !.current_step = "finalized",
                !.human_review_required = FALSE, !.updated_at = now]

\* POST /api/workflows/{id}/approve with corrections upd.
ApproveWorkflow(id, upd) ==
  /\ CanRequest
  /\ now' = now + 1
  /\ UNCHANGED <<srv>>
  /\ UNCHANGED <<engineVars, streamVars, partVars>>
  /\ IF ~rows[id].present
     THEN /\ resp' = Response("approve", id, "404", rows[id])
          /\ UNCHANGED <<rows, events, review_queue>>
     ELSE IF AgentStateRaises(id)
     THEN /\ resp' = Response("approve", id, "500", rows[id])
          /\ UNCHANGED <<rows, events, review_queue>>
     ELSE LET state == get_agent_state(id)
              current_data == Update(state.extracted_data.items, upd)
              merges == upd # <<>> /\ ~state.extracted_data.isNone
              final == finalize_workflow(
                         IF merges
                         THEN [state EXCEPT !.extracted_data =
                                 Data(DocumentExtractedData(current_data))]
                         ELSE state)
          IN
          IF state.status # "pending_review"
          THEN /\ resp' = Response("approve", id, "400", rows[id])
               /\ UNCHANGED <<rows, events, review_queue>>
          ELSE IF merges /\ ExtractedRaises(current_data)
          THEN /\ resp' = Response("approve", id, "500", rows[id])
               /\ UNCHANGED <<rows, events, review_queue>>
          ELSE /\ rows' = save_agent_state(final)
               /\ review_queue' = review_queue \ {id}
               /\ events' = add_workflow_event(id, "WORKFLOW_FINALIZED")
               /\ resp' = Response("approve", id, "200", final)

\* POST /api/workflows/{id}/reject: no check of the status.
RejectWorkflow(id) ==
  /\ CanRequest
  /\ now' = now + 1
  /\ UNCHANGED <<srv, events>>
  /\ UNCHANGED <<engineVars, streamVars, partVars>>
  /\ IF ~rows[id].present
     THEN /\ resp' = Response("reject", id, "404", rows[id])
          /\ UNCHANGED <<rows, review_queue>>
     ELSE IF AgentStateRaises(id)
     THEN /\ resp' = Response("reject", id, "500", rows[id])
          /\ UNCHANGED <<rows, review_queue>>
     ELSE LET state == [get_agent_state(id) EXCEPT
                          !.status = "error", !.current_step = "rejected",
                          !.error_message = "Rejected by human reviewer",
                          !.human_review_required = FALSE, !.updated_at = now]
          IN /\ rows' = save_agent_state(state)
             /\ review_queue' = review_queue \ {id}
             /\ resp' = Response("reject", id, "200", state)

(***************************************************************************)
(* PureLangGraphAGUIServer.run (src/backend/ag_ui_server_pure_langgraph.py)*)
(* writes the same tables.  The workflow behind it is the graph of         *)
(* ag_ui_langgraph_processor.py; here its events and the state it reports  *)
(* are inputs.                                                             *)
(***************************************************************************)
\* Bound of the model: events one streamed run delivers.
MaxEvents == 2

KeyEvents == {"STATE_UPDATE", "HUMAN_INPUT_REQUIRED", "RUN_FINISHED"}

\* States get_workflow_state may report while the events are consumed.
Extracting ==
  [status |-> "processing", current_step |-> "extract_data",
   extracted_data |-> NoData, human_review_required |-> FALSE]
Paused(d) ==
  [status |-> "pending_review", current_step |-> "await_human_review",
   extracted_data |-> Data(d), human_review_required |-> TRUE]
Finished(d) ==
  [status |-> "finalized", current_step |-> "finalize",
   extracted_data |-> Data(d), human_review_required |-> FALSE]

\* Events of a streamed run with the state the workflow reports when the
\* server handles them.  The nodes emit their events before their checkpoint
\* is written, so the state read on an event may still be the previous one.
StreamedEvents ==
  { [type |-> "TEXT_MESSAGE_CHUNK", st |-> Extracting],
    [type |-> "STATE_UPDATE", st |-> Extracting],
    [type |-> "HUMAN_INPUT_REQUIRED", st |-> Extracting],
    [type |-> "HUMAN_INPUT_REQUIRED", st |-> Paused(Invoice(None, InvId, Num(500000)))],
    [type |-> "RUN_FINISHED", st |-> Finished(Invoice(Acme, InvId, Num(50000)))] }

\* run() up to the stream: the initial AgentState is saved.
PureRun(id, content) ==
  /\ CanRequest /\ srv.pc = "idle" /\ FreshId(id)
  /\ content = "docA"                       \* documents are interchangeable
  /\ LET state == [NoRow EXCEPT !.present = TRUE, !.workflow_id = id,
                                !.status = "received",
                                !.current_step = "initializing",
                                !.document_content = content,
                                !.created_at = now, !.updated_at = now]
     IN /\ rows' = save_agent_state(state)
        /\ srv' = [agent |-> "pure", pc |-> "stream", state |-> state]
  /\ now' = now + 1
  /\ UNCHANGED <<events, review_queue, resp>>
  /\ UNCHANGED <<engineVars, streamVars, partVars>>

\* One event of the stream: it is saved; on a key event the row is rebuilt
\* from the state the workflow reports and saved, unless AgentState(...)
\* raises, which is only printed.
PureEvent(type, st) ==
  /\ srv.agent = "pure" /\ srv.pc = "stream"
  /\ Len(events[srv.state.workflow_id]) < MaxEvents
  /\ LET id == srv.state.workflow_id
         updated_state ==
           [srv.state EXCEPT
              !.status = st.status, !.current_step = st.current_step,
              !.extracted_data =
                 IF st.extracted_data.isNone THEN NoData
                 ELSE Data(DocumentExtractedData(st.extracted_data.items)),
              !.human_review_required = st.human_review_required,
              !.updated_at = now]
     IN /\ events' = add_workflow_event(id, type)
        /\ IF type \in KeyEvents
              /\ (st.extracted_data.isNone \/ ~ExtractedRaises(st.extracted_data.items))
           THEN /\ rows' = save_agent_state(updated_state)
                /\ review_queue' = IF type = "HUMAN_INPUT_REQUIRED"
                                   THEN review_queue \cup {id} ELSE review_queue
           ELSE UNCHANGED <<rows, review_queue>>
  /\ UNCHANGED <<now, srv, resp>>
  /\ UNCHANGED <<engineVars, streamVars, partVars>>

\* The stream is over.
PureDone ==
  /\ srv.agent = "pure" /\ srv.pc = "stream"
  /\ srv' = IdleRun
  /\ UNCHANGED <<now, rows, events, review_queue, resp>>
  /\ UNCHANGED <<engineVars, streamVars, partVars>>

(***************************************************************************)
(* The streaming workflow (src/backend/ag_ui_langgraph_processor.py) behind *)
(* the pure LangGraph server.  One AGUILangGraphWorkflow instance serves    *)
(* every request; node bodies do not suspend (the queue is unbounded, the   *)
(* LLM call is synchronous), so a step of the graph is one action and       *)
(* requests interleave between steps and at the yields of the generator.    *)
(***************************************************************************)
\* An AgentResponse on an event queue.  workflow_id is the stamp the callback
\* puts on it; of is the run whose node (or task) emitted it and phase the
\* call it was emitted in.
Item(type, cb, of, phase) == [type |-> type, workflow_id |-> cb, of |-> of, phase |-> phase]

\* The end marker None.
EndMarker(id) == Item("None", "", id, "run")

\* What a node of AGUIDocumentProcessor returns and the events it emits.
agui_node(node, v, out) ==
  CASE node = "intake" ->
         [values |-> [v EXCEPT !.status = "processing", !.current_step = "intake"],
          events |-> <<"TEXT_MESSAGE_CHUNK", "TEXT_MESSAGE_CHUNK", "TEXT_MESSAGE_CHUNK">>]
    [] node = "extract_data" /\ out.kind = "json" ->
         [values |-> [v EXCEPT !.current_step = "extract_data",
                               !.extracted_data = Data(out.data)],
          events |-> <<"TEXT_MESSAGE_CHUNK", "TEXT_MESSAGE_CHUNK", "TEXT_MESSAGE_CHUNK",
                       "TEXT_MESSAGE_CHUNK", "TOOL_CALL_CHUNK">>]
    [] node = "extract_data" /\ out.kind = "nojson" ->
         [values |-> [v EXCEPT !.current_step = "extract_data",
                               !.extracted_data = Data(<<Pair("error", Str(<<"F">>))>>)],
          events |-> <<"TEXT_MESSAGE_CHUNK", "TEXT_MESSAGE_CHUNK", "TEXT_MESSAGE_CHUNK",
                       "TEXT_MESSAGE_CHUNK", "TOOL_CALL_CHUNK">>]
    [] node = "extract_data" /\ out.kind = "raise" ->
         [values |-> [v EXCEPT !.current_step = "extract_data", !.status = "error",
                               !.extracted_data = Data(<<Pair("error", Str(<<"E">>))>>)],
          events |-> <<"TEXT_MESSAGE_CHUNK", "TEXT_MESSAGE_CHUNK", "TEXT_MESSAGE_CHUNK",
                       "RUN_ERROR">>]
    [] node = "await_human_review" ->
         [values |-> [v EXCEPT !.current_step = "await_human_review",
                               !.status = "pending_review",
                               !.human_review_required = TRUE],
          events |-> <<"TEXT_MESSAGE_CHUNK", "TEXT_MESSAGE_CHUNK", "GENERATIVE_UI",
                       "HUMAN_INPUT_REQUIRED">>]
    [] node = "finalize" ->
         [values |-> [v EXCEPT !.current_step = "finalize", !.status = "finalized",
                               !.human_review_required = FALSE],
          events |-> <<"TEXT_MESSAGE_CHUNK", "TEXT_MESSAGE_CHUNK", "TEXT_MESSAGE_CHUNK",
                       "RUN_FINISHED">>]

\* One step of app.astream: the node runs and emits, its branch is evaluated,
\* AGUIStreamingCheckpointer.aput saves the checkpoint and emits
\* STATE_UPDATE.  putOk: whether the save goes through; the state holds the
\* stream_callback closure and aput is asynchronous on a synchronous
\* SqliteSaver, which the installed LangGraph may or may not accept.
AguiStep(v, node, out, putOk) ==
  LET r == agui_node(node, v, out)
      raises == BranchRaises(node, r.values) \/ ~putOk
  IN [raises |-> raises, values |-> r.values,
      next |-> IF raises THEN node ELSE NextNode(node, r.values),
      events |-> IF raises THEN r.events ELSE Append(r.events, "STATE_UPDATE")]

\* stream_callback of run cb is called with events of a node of run `of`.
Emitted(q, cb, of, phase, types) ==
  [q EXCEPT ![cb] = @ \o [i \in 1..Len(types) |-> Item(types[i], cb, of, phase)]]

\* Variant of the consumer loop that does not look for the end marker.
NeverClosed(id) == taken[id] > Len(queue[id])

\* The consumer loop of run id has got the end marker.
Closed(id) == taken[id] > 0 /\ queue[id][taken[id]].type = "None"

\* The servers are used one at a time.
CanStream ==
  /\ now <= MaxCalls /\ srv.pc = "idle" /\ AllIdle
  /\ \A w \in RunIds : ~HasCheckpoint(w)

\* POST /agent/run up to the first yield of run_streaming_workflow: the
\* initial row is saved; the shared workflow gets the processor, the
\* checkpointer and the app of this run; RUN_STARTED is yielded (it is kept
\* as the first item of the run's stream).
StreamRun(id, content) ==
  /\ CanStream /\ FreshId(id) /\ tasks[id].pc = "none"
  /\ content = "docA"                       \* documents are interchangeable
  /\ rows' = save_agent_state([NoRow EXCEPT !.present = TRUE, !.workflow_id = id,
                                            !.status = "received",
                                            !.current_step = "initializing",
                                            !.document_content = content,
                                            !.created_at = now, !.updated_at = now])
  /\ app' = id
  /\ tasks' = [tasks EXCEPT ![id] = [NoTask EXCEPT !.pc = "started", !.next = "intake"]]
  /\ queue' = [queue EXCEPT ![id] = <<Item("RUN_STARTED", id, id, "run")>>]
  /\ now' = now + 1
  /\ UNCHANGED <<events, review_queue, srv, resp, threads, taken>>
  /\ UNCHANGED <<engineVars, partVars>>

\* A step of the task run_workflow() of run id.  The task is created once the
\* consumer has taken RUN_STARTED and reads self.app when it starts.  When
\* the stream is over, WORKFLOW_COMPLETE follows a finalized state; an
\* exception becomes RUN_ERROR; the end marker is put in the finally clause.
StreamStep(id, out, putOk) ==
  /\ \/ tasks[id].pc = "started" /\ taken[id] >= 1
     \/ tasks[id].pc = "running"
  /\ tasks[id].next = "extract_data" \/ out.kind = "raise"
  /\ LET a == IF tasks[id].pc = "started" THEN app ELSE tasks[id].app
         node == tasks[id].next
         r == AguiStep(tasks[id].vals, node, out, putOk)
         over == r.raises \/ node \in InterruptAfter \/ r.next = "END"
         q1 == Emitted(queue, a, id, "run", r.events)
         q2 == IF r.raises THEN Emitted(q1, id, id, "run", <<"RUN_ERROR">>)
               ELSE IF over /\ r.values.status = "finalized"
               THEN Emitted(q1, id, id, "run", <<"WORKFLOW_COMPLETE">>)
               ELSE q1
     IN /\ queue' = IF over THEN [q2 EXCEPT ![id] = Append(@, EndMarker(id))] ELSE q2
        /\ tasks' = [tasks EXCEPT ![id] =
                       [pc |-> IF over THEN "ended" ELSE "running", app |-> a,
                        vals |-> IF r.raises THEN @.vals ELSE r.values,
                        next |-> r.next]]
        /\ threads' = IF r.raises THEN threads
                      ELSE [threads EXCEPT ![id] =
                              [present |-> TRUE, values |-> r.values,
                               next |-> r.next, last |-> node]]
  /\ UNCHANGED <<now, rows, events, review_queue, srv, resp, app, taken>>
  /\ UNCHANGED <<engineVars, partVars>>

\* get_workflow_state(id): the values of the thread, None without them.
get_workflow_state(id) ==
  IF app # "" /\ threads[id].present THEN Data(threads[id].values) ELSE NoData

\* The consumer of run id gets the next item of its queue.  The end marker
\* closes the stream.  An event is saved by the server; on a key event the
\* row is rebuilt from get_workflow_state and saved, and HUMAN_INPUT_REQUIRED
\* adds the review-queue entry, unless AgentState(...) raises, which is
\* only printed.
StreamConsume(id) ==
  /\ taken[id] < Len(queue[id]) /\ ~Closed(id)
  /\ taken' = [taken EXCEPT ![id] = @ + 1]
  /\ LET item == queue[id][taken[id] + 1]
         st == get_workflow_state(id)
     IN IF item.type = "None"
        THEN UNCHANGED <<rows, events, review_queue>>
        ELSE /\ events' = add_workflow_event(id, item.type)
             /\ IF /\ item.type \in KeyEvents /\ ~st.isNone
                   /\ \/ st.items.extracted_data.isNone
                      \/ ~ExtractedRaises(st.items.extracted_data.items)
                THEN /\ rows' = save_agent_state(
                          [rows[id] EXCEPT
                             !.status = st.items.status,
                             !.current_step = st.items.current_step,
                             !.extracted_data =
                                IF st.items.extracted_data.isNone THEN NoData
                                ELSE Data(DocumentExtractedData(st.items.extracted_data.items)),
                             !.human_review_required = st.items.human_review_required,
                             !.updated_at = now])
                     /\ review_queue' = IF item.type = "HUMAN_INPUT_REQUIRED"
                                        THEN review_queue \cup {id} ELSE review_queue
                ELSE UNCHANGED <<rows, review_queue>>
  /\ UNCHANGED <<now, srv, resp, app, threads, tasks, queue>>
  /\ UNCHANGED <<engineVars, partVars>>

RECURSIVE AguiStream(_, _, _, _, _)
\* app.astream(None, config) on thread t: steps run until a node of
\* interrupt_after has run, nothing is next, or a step raises.
AguiStream(t, out, putOk, emitted, ran) ==
  IF t.next = "END" \/ (ran > 0 /\ t.last \in InterruptAfter)
  THEN [thread |-> t, events |-> emitted, raised |-> FALSE]
  ELSE LET r == AguiStep(t.values, t.next, out, putOk) IN
       IF r.raises
       THEN [thread |-> t, events |-> emitted \o r.events, raised |-> TRUE]
       ELSE AguiStream([present |-> TRUE, values |-> r.values,
                        next |-> r.next, last |-> t.next],
                       out, putOk, emitted \o r.events, ran + 1)

\* POST /api/workflows/{id}/approve: resume_workflow of the server calls
\* resume_workflow of the shared workflow and, when that returns True,
\* removes the review-queue entry; the row is not touched.  The events of the
\* resumed nodes go to the callback the current app holds.
StreamResume(id, upd, out, noTasks, putOk) ==
  /\ CanStream
  /\ now' = now + 1
  /\ LET cur == threads[id]
         merged == [cur.values EXCEPT
                      !.extracted_data = IF @.isNone THEN @ ELSE Data(Update(@.items, upd)),
                      !.human_review_required = FALSE]
         updRaises == upd # <<>> /\ (~cur.present \/ BranchRaises(cur.last, merged))
         t0 == IF upd # <<>> /\ ~updRaises
               THEN [cur EXCEPT !.values = merged, !.next = NextNode(cur.last, merged)]
               ELSE cur
         nothing == ~cur.present \/ t0.next = "END"
         s == AguiStream(t0, out, putOk, <<>>, 0)
     IN
     IF app = "" \/ updRaises
     THEN noTasks = "raise" /\ UNCHANGED <<threads, queue, review_queue>>
     ELSE IF nothing
     THEN /\ threads' = [threads EXCEPT ![id] = t0]
          /\ review_queue' = IF noTasks = "empty" THEN review_queue \ {id}
                             ELSE review_queue
          /\ UNCHANGED queue
     ELSE /\ noTasks = "raise"
          /\ threads' = [threads EXCEPT ![id] = s.thread]
          /\ queue' = Emitted(queue, app, id, "resume", s.events)
          /\ review_queue' = IF s.raised THEN review_queue ELSE review_queue \ {id}
  /\ UNCHANGED <<rows, events, srv, resp, app, tasks, taken>>
  /\ UNCHANGED <<engineVars, partVars>>

\* GET /api/workflows/pending: get_pending_reviews().
get_pending_reviews ==
  {id \in RunIds : rows[id].present /\ rows[id].human_review_required
                     /\ rows[id].status = "pending_review"}

\* The engine and the servers as their callers drive them (run_example.py, the tests, ui.py):
\* one engine call at a time; review requests may arrive while a server run
\* is in progress.
\* The steps of a call in flight.
EngineSteps ==
  \/ \E p \in Procs : Intake(p)
  \/ \E p \in Procs, out \in LLMOutcomes : ExtractData(p, out)
  \/ \E p \in Procs : AwaitHumanReview(p)
  \/ \E p \in Procs, fileOk \in BOOLEAN : Finalize(p, fileOk)
  \/ \E p \in Procs : ReturnState(p)

ServerSteps ==
  \/ \E id \in RunIds, content \in Contents : AgentRun(id, content)
  \/ AgentIntake
  \/ \E out \in LLMOutcomes : AgentExtract(out)
  \/ AgentReload
  \/ \E id \in RunIds, upd \in Corrections : ApproveWorkflow(id, upd)
  \/ \E id \in RunIds : RejectWorkflow(id)
  \/ \E id \in RunIds, content \in Contents : PureRun(id, content)
  \/ \E e \in StreamedEvents : PureEvent(e.type, e.st)
  \/ PureDone

\* Normal operation: the database file opens and no process stops.
Next ==
  \/ \E p \in Procs, id \in RunIds, content \in Contents :
        AllIdle /\ RunWorkflow(p, id, content, TRUE)
  \/ \E p \in Procs, id \in RunIds, upd \in Corrections, noTasks \in {"raise", "empty"} :
        AllIdle /\ ResumeWorkflow(p, id, upd, noTasks, TRUE)
  \/ EngineSteps
  \/ ServerSteps

\* The engine with its faults: the database file may fail to open for a
\* call, and the process of a call may stop.
NextFaulty ==
  \/ \E p \in Procs, id \in RunIds, content \in Contents, dbOk \in BOOLEAN :
        AllIdle /\ RunWorkflow(p, id, content, dbOk)
  \/ \E p \in Procs, id \in RunIds, upd \in Corrections, noTasks \in {"raise", "empty"} :
        \E dbOk \in BOOLEAN : AllIdle /\ ResumeWorkflow(p, id, upd, noTasks, dbOk)
  \/ EngineSteps
  \/ \E p \in Procs : Crash(p)

\* Callers that do not wait for each other: run_workflow and resume_workflow
\* take no lock and look at no marker of a call in flight, so a second
\* process may start a call at any time.
NextOverlap ==
  \/ \E p \in Procs, id \in RunIds, content \in Contents :
        RunWorkflow(p, id, content, TRUE)
  \/ \E p \in Procs, id \in RunIds, upd \in Corrections, noTasks \in {"raise", "empty"} :
        ResumeWorkflow(p, id, upd, noTasks, TRUE)
  \/ EngineSteps

\* The pure LangGraph server with its streaming workflow: requests arrive
\* while streams are open.
NextStream ==
  \/ \E id \in RunIds, content \in Contents : StreamRun(id, content)
  \/ \E id \in RunIds, out \in StreamOutcomes, putOk \in BOOLEAN : StreamStep(id, out, putOk)
  \/ \E id \in RunIds : StreamConsume(id)
  \/ \E id \in RunIds, upd \in StreamCorrections, out \in StreamOutcomes,
        noTasks \in {"raise", "empty"}, putOk \in BOOLEAN :
        StreamResume(id, upd, out, noTasks, putOk)

Spec == Init /\ [][Next]_vars
SpecStream == Init /\ [][NextStream]_vars
SpecOverlap == Init /\ [][NextOverlap]_vars
SpecFaulty == Init /\ [][NextFaulty]_vars

(***************************************************************************)
(* The rules alone: validation_router and await_human_review_node of       *)
(* src/engine.py and of src/backend/ag_ui_langgraph_processor.py applied   *)
(* to one extracted_data, as the graph applies them after extract_data.    *)
(***************************************************************************)
\* A key the dict does not hold.
Absent == [t |-> "absent", n |-> 0, s |-> <<>>]
Field(k, v) == IF v = Absent THEN <<>> ELSE <<Pair(k, v)>>

\* The dict of an answer with these values, keys in the order of the prompt.
RuleDict(vendor, inv, amount, sentiment, topic, err) ==
  Field("vendor_name", vendor) \o Field("invoice_id", inv)
    \o Field("total_amount", amount) \o Field("sentiment", sentiment)
    \o Field("topic", topic) \o Field("error", err)

Breach == Str(<<"S","E","C","U","R","I","T","Y","!">>)
\* Every extracted_data the rules are given: None and the dicts (the empty
\* dict among them) over absent, null, empty and filled values; the amounts
\* are at the threshold, above it, unreadable and nan.
RuleData ==
  {NoData} \cup
  {Data(RuleDict(v, i, a, s, t, e)) :
     v \in {Absent, None, Str(<<>>), Acme},
     i \in {Absent, None, Str(<<>>), InvId},
     a \in {Absent, None, Num(100000), Str(<<"$","1",",","0","0","0",".","0","1">>),
            Str(<<"a","b","c">>), Str(<<"N","a","N">>)},
     s \in {Absent, None, IrateCap, Happy},
     t \in {Absent, None, Billing, Breach},
     e \in {Absent, Str(<<"E">>)}}

RuleSets == {"engine", "processor"}

\* Amount check of AGUIDocumentProcessor, the same in its router and in its
\* review node: float() is guarded and the test is numeric_amount > 1000.
AguiAmountReasons(d) ==
  LET amount == Get(d, "total_amount") IN
  IF Truthy(amount)
  THEN IF AmountRaises(amount) THEN <<Reason("Invalid amount format")>>
       ELSE IF ~AmountIsNan(amount) /\ NumericAmount(amount) > AmountThreshold * 100
            THEN <<Reason("Amount exceeds $1000 threshold")>>
            ELSE <<>>
  ELSE <<>>

\* The rule families of AGUIDocumentProcessor on a dict without error marker.
AguiRuleReasons(d) ==
  CASE DocKind(d) = "invoice" ->
         MissingVendor(d) \o MissingInvoiceId(d) \o AguiAmountReasons(d)
    [] DocKind(d) = "ticket" -> TicketReasons(d)
    [] DocKind(d) = "generic" ->
         [i \in 1..Len(EmptyFields(d)) |-> FieldReason("Missing field", EmptyFields(d)[i])]

\* AGUIDocumentProcessor.validation_router: what it reports and what it returns.
AguiRouterReasons(x) ==
  IF NoValidData(x) THEN <<Reason("Missing or invalid data")>> ELSE AguiRuleReasons(x.items)
agui_validation_router(x) ==
  IF AguiRouterReasons(x) # <<>> THEN "await_human_review" ELSE "finalize"

\* The reasons AGUIDocumentProcessor.await_human_review_node computes.
AguiAwaitReasons(x) ==
  IF NoValidData(x) THEN <<Reason("Missing or invalid extracted data")>>
  ELSE AguiRuleReasons(x.items)

\* The state extract_data leaves for the router of the engine.
Extracted(x) ==
  [InitialState("r1", "docA", 0) EXCEPT !.status = "processing", !.extracted_data = x]

Given(rules, x) == [NoProbe EXCEPT !.pc = "given", !.rules = rules, !.data = x]

\* The router is evaluated on the data: it raises, or it names the next node.
Route ==
  /\ probe.pc = "given"
  /\ probe' =
       IF RouterRaises(probe.data)
       THEN [probe EXCEPT !.pc = "raised", !.raisedIn = "validation_router"]
       ELSE IF probe.rules = "engine"
       THEN [probe EXCEPT !.pc = "routed",
                          !.next = validation_router(Extracted(probe.data)),
                          !.reasons = RouterReasons(probe.data)]
       ELSE [probe EXCEPT !.pc = "routed",
                          !.next = agui_validation_router(probe.data),
                          !.reasons = AguiRouterReasons(probe.data)]
  /\ UNCHANGED <<engineVars, serverVars, streamVars, now, saver, log>>

\* The review node runs on the data the router sent to it.
Review ==
  /\ probe.pc = "routed" /\ probe.next = "await_human_review"
  /\ probe' =
       IF probe.rules = "engine"
       THEN IF AwaitRaises(probe.data)
            THEN [probe EXCEPT !.pc = "raised", !.raisedIn = "await_human_review"]
            ELSE LET new == await_human_review_node(Extracted(probe.data), now) IN
                 [probe EXCEPT !.pc = "reviewed", !.status = new.status,
                               !.reason = new.reason_for_review]
       ELSE [probe EXCEPT !.pc = "reviewed", !.status = "pending_review",
                          !.reason = ReasonFor(ReasonText(AguiAwaitReasons(probe.data)))]
  /\ UNCHANGED <<engineVars, serverVars, streamVars, now, saver, log>>

\* The finalize node runs on the data the router let through.
Finalized ==
  /\ probe.pc = "routed" /\ probe.next = "finalize"
  /\ probe' = [probe EXCEPT !.pc = "finalized",
                            !.status = finalize_node(Extracted(probe.data), now).status]
  /\ UNCHANGED <<engineVars, serverVars, streamVars, now, saver, log>>

InitRules ==
  /\ Started /\ saver = NoSaver /\ log = NoLog
  /\ \E rules \in RuleSets, x \in RuleData : probe = Given(rules, x)
NextRules == Route \/ Review \/ Finalized
SpecRules == InitRules /\ [][NextRules]_vars

(***************************************************************************)
(* Properties                                                              *)
(***************************************************************************)
\* Validation of the state's extracted data returns with no reasons.
Passes(state) ==
  ~RouterRaises(state.extracted_data) /\ validation_router(state) = "finalize"

\* The reason text names the reason r.
InReasons(r, reason) ==
  ~reason.isNone /\ \E i \in 1..Len(reason.parts) : reason.parts[i] = r

ThresholdReason == Reason("Amount exceeds $1000 threshold")

\* The extracted data a resume validates: the data held before the call
\* with the call's corrections merged in.
MergedData(r) == MergedState(r.before, r.upd, 0).extracted_data

\* C1: whenever a Run or a Resume returns a state whose extracted data passes
\* validation, that state is finalized and its reason_for_review is None.
C1_ValidEndsFinalizedNoReason ==
  (ret.op \in {"run", "resume"} /\ ret.ok /\ Passes(ret.values)) =>
    /\ ret.values.status = "finalized"
    /\ ret.values.reason_for_review.isNone

C4_ResumeUnchangedPausesAgain ==
  (/\ ret.op = "resume" /\ ret.hadCheckpoint
   /\ ret.before.status = "pending_review"
   /\ ret.upd = <<>>
   /\ ~Passes(ret.before)) =>
     /\ ret.ok
     /\ ret.values.status = "pending_review"
     /\ ret.values.extracted_data = ret.before.extracted_data
     /\ ret.values.reason_for_review
          = ReasonFor(ReasonText(AwaitReasons(ret.before.extracted_data)))
     /\ Len(ret.values.workflow_history) = Len(ret.before.workflow_history) + 1
     /\ SubSeq(ret.values.workflow_history, 1, Len(ret.before.workflow_history))
          = ret.before.workflow_history
     /\ ret.nAfter = ret.nBefore + 1

C4_Witness ==
  /\ ret.op = "resume" /\ ret.ok /\ ret.upd = <<>>
  /\ ret.before.status = "pending_review"
  /\ ret.values.status = "pending_review"
  /\ ret.executed = <<"await_human_review">>
  /\ Len(ret.values.workflow_history) = Len(ret.before.workflow_history) + 1

\* C5: a Resume of a run whose latest status is not pending_review fails and
\* leaves the thread as it was: the latest state (status, extracted_data,
\* history, updated_at) and the number of checkpoints are unchanged.
C5_ResumeOfNonPendingRefused ==
  (/\ ret.op = "resume" /\ ret.hadCheckpoint
   /\ ret.before.status # "pending_review") =>
     /\ ~ret.ok
     /\ ret.stored = ret.before
     /\ ret.nAfter = ret.nBefore

C7_NodeExceptionBecomesError ==
  (/\ ret.op \in {"run", "resume"}
   /\ ret.raisedIn \in {"intake", "extract_data", "await_human_review", "finalize"}) =>
     /\ ret.stored.status = "error"
     /\ ret.stored.workflow_history # <<>>
     /\ ret.stored.workflow_history[Len(ret.stored.workflow_history)].err # ""

\* C8: in the checkpoints of a run, a state with status error is never
\* followed by a state with another status, except where a new Run starts
\* the thread afresh.
C8_ErrorIsTerminal ==
  \A id \in RunIds : \A i \in 1..(Len(checkpoints[id]) - 1) :
    (/\ checkpoints[id][i].values.status = "error"
     /\ checkpoints[id][i + 1].last # "__start__") =>
       checkpoints[id][i + 1].values.status = "error"

\* The data of a row or of a checkpoint passes validation.
DataPasses(x) == Passes([extracted_data |-> x])

C9_RejectAnswered ==
  /\ resp.op = "reject" /\ resp.before.status = "finalized"
  /\ resp.code = "500" /\ rows[resp.id].status = "finalized"

C10_ApproveAnswered ==
  /\ resp.op = "approve" /\ resp.before.status = "pending_review"
  /\ resp.code = "500" /\ rows[resp.id].status = "pending_review"

\* The servers: execute_workflow_stream never gets past its reload, and
\* approve never answers 200.
AgentNeverValidates == srv.pc # "validate" /\ ~(resp.op = "approve" /\ resp.code = "200")

\* await_human_review is in a list of executed nodes only as its last entry.
AwaitOnlyLast(executed) ==
  \A i \in 1..Len(executed) :
    executed[i] = "await_human_review" => i = Len(executed)

\* C11: interrupt semantics.  In a call, await_human_review is the last node
\* that executes: once it has run the call only returns; a call executes at
\* most three nodes; a call in which await_human_review ran returns a state
\* with status pending_review.
C11_InterruptAfterReview ==
  /\ \A p \in Procs :
       /\ AwaitOnlyLast(call[p].executed)
       /\ Len(call[p].executed) <= 3
       /\ (/\ call[p].executed # <<>>
           /\ call[p].executed[Len(call[p].executed)] = "await_human_review") =>
             call[p].pc = "final"
  /\ ret.op \in {"run", "resume"} =>
       /\ AwaitOnlyLast(ret.executed)
       /\ Len(ret.executed) <= 3
       /\ (\E i \in 1..Len(ret.executed) : ret.executed[i] = "await_human_review") =>
             ret.ok /\ ret.values.status = "pending_review"

\* C11, its case: a Resume of a run whose data still fails ran
\* await_human_review once and returned, with await_human_review pending
\* again.
C11_Witness ==
  /\ ret.op = "resume" /\ ret.ok /\ ret.executed = <<"await_human_review">>
  /\ HasCheckpoint(ret.id) /\ Latest(ret.id).next = "await_human_review"
  /\ ret.values.status = "pending_review"

\* Checkpoints a call has written when it has executed its nodes so far: one
\* for the input of a Run or for the corrections of a Resume, one per node.
WrittenBy(c) ==
  Len(c.executed) + (IF c.op = "run" \/ c.upd # <<>> THEN 1 ELSE 0)

C13_CrashResumeEquivalence ==
  /\ \A p \in Procs :
       (/\ call[p].op = "resume" /\ call[p].pc = "loop" /\ call[p].executed = <<>>
        /\ call[p].upd = <<>> /\ call[p].prev.op = "crash") =>
          call[p].vals = call[p].prev.values /\ call[p].next = call[p].prev.next
  /\ (ret.op = "resume" /\ ret.upd = <<>> /\ ret.prev.op = "crash") =>
       /\ ret.hadCheckpoint
       /\ ret.before = ret.prev.values
       /\ ret.prev.next # "END" =>
            (ret.executed # <<>> \/ ret.raisedIn \in {ret.prev.next, "validation_router"})

\* C13 where both calls use the database file: the equivalence holds.
C13_WithTheFile ==
  /\ \A p \in Procs :
       (/\ call[p].op = "resume" /\ call[p].pc = "loop" /\ call[p].executed = <<>>
        /\ call[p].upd = <<>> /\ call[p].prev.op = "crash"
        /\ ~call[p].prev.mem) =>
          call[p].vals = call[p].prev.values /\ call[p].next = call[p].prev.next
  /\ (/\ ret.op = "resume" /\ ret.upd = <<>> /\ ret.prev.op = "crash"
      /\ ~ret.mem /\ ~ret.prev.mem) =>
       /\ ret.hadCheckpoint
       /\ ret.before = ret.prev.values
       /\ ret.prev.next # "END" =>
            (ret.executed # <<>> \/ ret.raisedIn \in {ret.prev.next, "validation_router"})

\* A Resume has continued a crashed call from the database file.
C13_FileResumed ==
  /\ ret.op = "resume" /\ ret.upd = <<>> /\ ret.prev.op = "crash"
  /\ ~ret.mem /\ ~ret.prev.mem /\ ret.ok /\ ret.executed # <<>>

\* C14: a run that Run left in pending_review can be resumed: the Resume that
\* follows finds the checkpoint Run left, with status pending_review, and
\* without corrections it continues the run.
C14_PendingRunResumable ==
  (/\ ret.op = "resume" /\ ret.prev.op = "run" /\ ret.prev.ok
   /\ ret.prev.values.status = "pending_review") =>
     /\ ret.hadCheckpoint
     /\ ret.before = ret.prev.values
     /\ ret.upd = <<>> => (ret.ok /\ ret.executed # <<>>)

\* C14 where both calls use the database file.
C14_WithTheFile ==
  (/\ ret.op = "resume" /\ ret.prev.op = "run" /\ ret.prev.ok
   /\ ret.prev.values.status = "pending_review"
   /\ ~ret.mem /\ ~ret.prev.mem) =>
     /\ ret.hadCheckpoint
     /\ ret.before = ret.prev.values
     /\ ret.upd = <<>> => (ret.ok /\ ret.executed # <<>>)

\* C15: at most one execution is active per run: no two calls in flight are
\* for the same thread.
C15_OneExecutionPerRun ==
  \A p, q \in Procs :
    (p # q /\ call[p].pc # "idle" /\ call[q].pc # "idle") => call[p].id # call[q].id

\* Two calls for one thread have both executed nodes and written checkpoints
\* in turn: the latest checkpoint is not the state the first call holds.
C15_Interleaved ==
  /\ call["p1"].pc = "loop" /\ call["p2"].pc = "loop"
  /\ call["p1"].id = call["p2"].id
  /\ call["p1"].executed # <<>> /\ call["p2"].executed # <<>>
  /\ Latest(call["p1"].id).values # call["p1"].vals

\* The positions of the end marker on the queue of run id.
Markers(id) == {i \in 1..Len(queue[id]) : queue[id][i].type = "None"}

\* The events of the workflow task of run id, wherever they were put.
TaskEvents(id) ==
  [x \in RunIds |-> SelectSeq(queue[x], LAMBDA e : e.type # "None" /\ e.of = id
                                                     /\ e.phase = "run")]

\* C16: every event emitted for a run is delivered in order, exactly once:
\* no event is put on a queue behind the end marker, where the consumer,
\* which takes the items in queue order and stops at the marker, never gets it.
C16_NoneDropped ==
  \A x \in RunIds : \A i \in 1..Len(queue[x]) :
    queue[x][i].type # "None" => \A j \in 1..i : queue[x][j].type # "None"

\* Without any overlap: the stream of a run is closed and the events of its
\* resumed nodes lie behind the end marker.
C16_ResumeDropped ==
  \E x \in RunIds :
    /\ Closed(x) /\ tasks["r2"].pc = "none"
    /\ \E i \in 1..Len(queue[x]) :
         /\ queue[x][i].phase = "resume" /\ queue[x][i].of = x
         /\ queue[x][i].type = "RUN_FINISHED"

\* C17, in a state: the end marker is on the queue of a run exactly when its
\* task is over, and once; the events the task put on this queue lie before
\* it; the consumer takes nothing behind it; a stream that is not closed
\* has a step to take.
C17_Terminated ==
  \A id \in RunIds :
    /\ Cardinality(Markers(id)) <= 1
    /\ (tasks[id].pc = "ended") <=> (Markers(id) # {})
    /\ \A m \in Markers(id) :
         /\ taken[id] <= m
         /\ \A i \in 1..Len(queue[id]) :
              (queue[id][i].of = id /\ queue[id][i].phase = "run") => i <= m
    /\ (tasks[id].pc # "none" /\ ~Closed(id)) =>
         ENABLED (\/ StreamConsume(id)
                  \/ \E out \in StreamOutcomes, putOk \in BOOLEAN : StreamStep(id, out, putOk))

\* C17: every run's event stream terminates: however the workflow task ends,
\* the end marker is put exactly once and after every event of the task (no
\* event of the task is put anywhere once the marker is on the queue), and
\* the consumer loop stops at it.
C17_StreamTerminates ==
  /\ []C17_Terminated
  /\ [][\A id \in RunIds : Markers(id) # {} =>
           /\ TaskEvents(id)' = TaskEvents(id)
           /\ Markers(id)' = Markers(id)]_vars

\* The three ways a task ends have each closed a stream.
C17_Witness ==
  /\ Closed("r1") /\ Closed("r2")
  /\ threads["r1"].values.status = "pending_review"
  /\ threads["r2"].values.status = "finalized"

C17_WitnessRaised ==
  /\ Closed("r1") /\ ~threads["r1"].present
  /\ queue["r1"][Len(queue["r1"]) - 1].type = "RUN_ERROR"

\* C18: runs with distinct ids are independent on the shared workflow: every
\* event is on the stream of the run whose node emitted it and carries that
\* run's id.
C18_RunsIndependent ==
  \A x \in RunIds : \A i \in 1..Len(queue[x]) :
    queue[x][i].type # "None" =>
      (queue[x][i].of = x /\ queue[x][i].workflow_id = queue[x][i].of)

\* The consumer of r2 has been handed an event of a node of r1, stamped r2.
C18_Delivered ==
  \E i \in 1..taken["r2"] :
    /\ queue["r2"][i].of = "r1" /\ queue["r2"][i].workflow_id = "r2"
    /\ queue["r2"][i].type = "HUMAN_INPUT_REQUIRED"

\* No request is being served: every stream that was opened is closed.
Quiet == \A id \in RunIds : tasks[id].pc # "none" => Closed(id)

\* The authoritative status of a run: that of its latest checkpoint.
PendingThreads ==
  {id \in RunIds : threads[id].present /\ threads[id].values.status = "pending_review"}

\* C19: between requests, a review-queue entry exists for a run exactly when
\* the run's status is pending_review.
C19_ReviewQueueMatches == Quiet => review_queue = PendingThreads

\* A resume without corrections has paused the run again and its entry is
\* gone.
C19_PausedAgainNoEntry ==
  /\ Quiet /\ tasks["r2"].pc = "none"
  /\ "r1" \in PendingThreads /\ "r1" \notin review_queue
  /\ \E i \in 1..Len(queue["r1"]) :
       queue["r1"][i].phase = "resume" /\ queue["r1"][i].type = "HUMAN_INPUT_REQUIRED"

\* C20: between requests, the list of pending runs is exactly the set of runs
\* whose latest checkpoint is pending_review.
C20_PendingListMatches == Quiet => get_pending_reviews = PendingThreads

\* A resume has finalized the run and the run is still listed.
C20_FinalizedStillListed ==
  /\ Quiet /\ tasks["r2"].pc = "none"
  /\ threads["r1"].values.status = "finalized"
  /\ "r1" \in get_pending_reviews

\* C21: a reject of a run in pending_review leaves the run with status error
\* (and takes its review-queue entry away).
C21_RejectLeavesError ==
  (resp.op = "reject" /\ resp.before.present /\ resp.before.status = "pending_review")
    => (resp.code = "200" /\ resp.after.status = "error")

\* extracted_data holds the error marker of a failed extraction.
ErrorMarker(state) ==
  ~state.extracted_data.isNone /\ Has(state.extracted_data.items, "error")

\* C22: when the extraction fails, Run does not raise: the error marker is in
\* extracted_data, the router sends the run straight to the review node, and
\* the run ends suspended in pending_review with the fixed reason.
C22_ExtractionFailureGoesToReview ==
  /\ \A p \in Procs :
       (/\ call[p].op = "run" /\ call[p].pc # "idle" /\ call[p].executed # <<>>
        /\ call[p].executed[Len(call[p].executed)] = "extract_data"
        /\ ErrorMarker(call[p].vals))
         => (call[p].pc = "loop" /\ call[p].next = "await_human_review")
  /\ (ret.op = "run" /\ ErrorMarker(ret.stored) /\ ret.executed # <<>>)
       => /\ ret.ok
          /\ ret.executed = <<"intake", "extract_data", "await_human_review">>
          /\ ret.values.status = "pending_review"
          /\ ret.values.reason_for_review =
               ReasonFor(ReasonText(<<Reason("Missing or invalid extracted data")>>))

\* A run whose LLM call raised has returned.
C22_Witness ==
  /\ ret.op = "run" /\ ret.ok /\ ErrorMarker(ret.values)
  /\ ret.values.status = "pending_review"
  /\ \E i \in 1..Len(ret.values.workflow_history) :
       ret.values.workflow_history[i].kind = "Extraction failed"

\* C23: the validation router is total: no call ends because the router
\* raised on the extracted data it was given.
C23_RouterNeverRaises == ret.raisedIn # "validation_router"

\* An invoice-shaped dict whose total_amount float() does not parse.
UnparsableAmount(x) ==
  /\ ~NoValidData(x) /\ DocKind(x.items) = "invoice"
  /\ Truthy(Get(x.items, "total_amount")) /\ AmountRaises(Get(x.items, "total_amount"))

\* C24: a Run on an invoice whose total_amount cannot be parsed ends suspended
\* in pending_review, and reason_for_review names the invalid amount.
C24_UnparsableAmountReviewed ==
  (ret.op = "run" /\ UnparsableAmount(ret.stored.extracted_data)) =>
    /\ ret.ok /\ ret.values.status = "pending_review"
    /\ InReasons(Reason("Invalid amount format"), ret.values.reason_for_review)

\* The checkpoints written after a node whose branch is the router.
Routed ==
  {cp \in UNION {{checkpoints[id][i] : i \in 1..Len(checkpoints[id])} : id \in RunIds} :
     cp.last \in {"extract_data", "await_human_review"}}

\* C25: the router decides finalize exactly when the list of reasons it
\* computes is empty; every decision for the review node has a reason.
C25_FinalizeIffNoReasons ==
  \A cp \in Routed :
    /\ cp.next \in {"finalize", "await_human_review"}
    /\ (cp.next = "finalize") <=> (RouterReasons(cp.values.extracted_data) = <<>>)
    /\ (cp.next = "await_human_review") => (Len(RouterReasons(cp.values.extracted_data)) >= 1)

\* The router has decided both ways, once on data a resume corrected.
C25_Witness ==
  /\ \E cp \in Routed : cp.next = "finalize" /\ cp.last = "await_human_review"
  /\ \E cp \in Routed : cp.next = "await_human_review"
                          /\ ThresholdReason = RouterReasons(cp.values.extracted_data)[1]

\* The place of an invoice reason in the fixed order of the rules.
Rank(r) ==
  CASE r.msg = "Missing vendor name" -> 1
    [] r.msg = "Missing invoice ID" -> 2
    [] r.msg \in {"Amount exceeds $1000 threshold", "Invalid amount format"} -> 3
    [] OTHER -> 0

\* The checkpoints the review node wrote.
Reviewed ==
  {cp \in Routed :
     /\ cp.last = "await_human_review" /\ cp.values.workflow_history # <<>>
     /\ cp.values.workflow_history[Len(cp.values.workflow_history)].kind
          = "Workflow paused for human review"}

Keys(d) == {d[i].k : i \in 1..Len(d)}

\* C27: a Resume with corrections overwrites keys shallowly: afterwards every
\* key of the corrections has the corrected value and every other key of
\* extracted_data has the value it had.
C27_ShallowOverwrite ==
  (ret.op = "resume" /\ ret.ok /\ ret.upd # <<>>) =>
    /\ ~ret.values.extracted_data.isNone
    /\ \A k \in Keys(ret.upd) :
         /\ Has(ret.values.extracted_data.items, k)
         /\ Get(ret.values.extracted_data.items, k) = Get(ret.upd, k)
    /\ \A k \in Keys(ret.before.extracted_data.items) \ Keys(ret.upd) :
         Get(ret.values.extracted_data.items, k) = Get(ret.before.extracted_data.items, k)

\* The same for a Resume of a run that was suspended in pending_review.
C27_OnPendingRun ==
  (ret.before.status = "pending_review" /\ ~ret.before.extracted_data.isNone)
    => C27_ShallowOverwrite

\* A Resume with corrections of a suspended run has returned.
C27_PendingResumed ==
  /\ ret.op = "resume" /\ ret.ok /\ ret.upd # <<>>
  /\ ret.before.status = "pending_review" /\ ret.values.status = "pending_review"

IsPrefix(a, b) == Len(a) <= Len(b) /\ SubSeq(b, 1, Len(a)) = a

\* C28: history is append-only: in the checkpoints of a run, the history of
\* each checkpoint is a prefix of the history of the next one.
C28_HistoryAppendOnly ==
  \A id \in RunIds : \A i \in 1..(Len(checkpoints[id]) - 1) :
    IsPrefix(checkpoints[id][i].values.workflow_history,
             checkpoints[id][i + 1].values.workflow_history)

\* The same between the checkpoints of one Run and its Resumes: a checkpoint
\* that holds the input of a new Run is set apart.
C28_SinceTheRun ==
  \A id \in RunIds : \A i \in 1..(Len(checkpoints[id]) - 1) :
    checkpoints[id][i + 1].last # "__start__" =>
      IsPrefix(checkpoints[id][i].values.workflow_history,
               checkpoints[id][i + 1].values.workflow_history)


\* C29: the document content of a run is set once: every checkpoint of a run
\* holds the content of the first one, whatever node, resume or later run
\* wrote it.
C29_ContentSetOnce ==
  \A id \in RunIds : \A i \in 1..Len(checkpoints[id]) :
    checkpoints[id][i].values.content = checkpoints[id][1].values.content

\* The same between the checkpoints of one Run and its Resumes.
C29_SinceTheRun ==
  \A id \in RunIds : \A i \in 1..(Len(checkpoints[id]) - 1) :
    checkpoints[id][i + 1].last # "__start__" =>
      checkpoints[id][i + 1].values.content = checkpoints[id][i].values.content

\* The row of the agent server keeps its document across intake, extraction,
\* approval and rejection.
C29_RowKeepsDocument ==
  [][\A id \in RunIds :
       rows[id].present => rows'[id].document_content = rows[id].document_content]_vars


\* What is stored for a run never changes once written: the checkpoints of a
\* thread only grow at the end, and a saved row of the agent server stays as
\* it was saved.
StoredOnce ==
  \A id \in RunIds :
    /\ IsPrefix(checkpoints[id], checkpoints'[id])
    /\ rows[id].present => rows'[id] = rows[id]

\* C30: checkpoints of a run are only appended, a stored state never changes
\* after it is written, and the state read back as current is that of the
\* newest checkpoint.
C30_CheckpointsOnlyAppended ==
  /\ [][StoredOnce]_vars
  /\ [](\A p \in Procs :
          (call[p].pc = "loop" /\ HasCheckpoint(call[p].id))
             => get_state(call[p].id) = Latest(call[p].id).values)

\* The checkpoints of the engine alone: a thread only grows at the end, and a
\* call that found checkpoints started from the values of the newest of them.
C30_EngineLogAppendOnly ==
  /\ [][\A id \in RunIds : IsPrefix(checkpoints[id], checkpoints'[id])]_vars
  /\ [](\A p \in Procs :
          (call[p].op = "resume" /\ call[p].hadCheckpoint)
             => call[p].before = checkpoints[call[p].id][call[p].nBefore].values)


\* C31: a saved state reads back: for every saved row, get_agent_state
\* returns, and returns the row as it was saved.
C31_SavedStateReadsBack ==
  \A id \in RunIds :
    rows[id].present => (~AgentStateRaises(id) /\ get_agent_state(id) = rows[id])

\* The read of the integration test: a row without events reads back.
C31_ReadsBackWithoutEvents ==
  \A id \in RunIds :
    (rows[id].present /\ events[id] = <<>>) => ~AgentStateRaises(id)


(***************************************************************************)
(* AGUIStreamingCheckpointer.aput alone                                    *)
(* (src/backend/ag_ui_langgraph_processor.py)                              *)
(***************************************************************************)
\* Bound of the model: calls of aput.
MaxPuts == 3

\* channel_values of the checkpoints the graph hands to aput: the input
\* checkpoint, which holds no workflow_id yet, and the state after each node.
PutValues ==
  { [workflow_id |-> "", current_step |-> "", status |-> ""],
    [workflow_id |-> "r1", current_step |-> "intake", status |-> "processing"],
    [workflow_id |-> "r1", current_step |-> "await_human_review", status |-> "pending_review"],
    [workflow_id |-> "r1", current_step |-> "finalize", status |-> "finalized"] }

\* Variant in which an exception of the callback leaves aput.
aput_raises_unguarded(putOk, hasCallback, attrOk, cbOk) ==
  ~putOk \/ (hasCallback /\ ~attrOk) \/ (hasCallback /\ attrOk /\ ~cbOk)

\* aput raises: super().aput(...) raised, or checkpoint.channel_values is
\* read as an attribute of a checkpoint that is a dict.  An exception of the
\* callback is caught and printed.
aput_raises(putOk, hasCallback, attrOk, cbOk) ==
  ~putOk \/ (hasCallback /\ ~attrOk)

\* The callback is called: there is one, the checkpoint holds values and they
\* hold a workflow_id.
aput_calls_back(v, putOk, hasCallback, attrOk) ==
  putOk /\ hasCallback /\ attrOk /\ v.workflow_id # ""

\* aput(config, checkpoint, metadata) with channel_values v.  putOk: the
\* write of SqliteSaver goes through; hasCallback: the checkpointer was built
\* with a stream_callback; attrOk: checkpoint.channel_values can be read;
\* cbOk: the callback returns.
Aput(v, putOk, hasCallback, attrOk, cbOk) ==
  /\ saver.calls < MaxPuts
  /\ LET n == Len(saver.written) + 1
         called == aput_calls_back(v, putOk, hasCallback, attrOk)
     IN saver' =
          [written |-> IF putOk THEN Append(saver.written, v) ELSE saver.written,
           emitted |-> IF called /\ cbOk
                       THEN Append(saver.emitted,
                                   [type |-> "STATE_UPDATE", checkpoint |-> n,
                                    workflow_id |-> v.workflow_id,
                                    current_step |-> v.current_step,
                                    status |-> v.status])
                       ELSE saver.emitted,
           calls |-> saver.calls + 1,
           last |-> [wrote |-> putOk,
                     callback |-> IF ~called THEN "none"
                                  ELSE IF cbOk THEN "returned" ELSE "raised",
                     raised |-> aput_raises(putOk, hasCallback, attrOk, cbOk)]]
  /\ UNCHANGED <<engineVars, serverVars, streamVars, now, probe, log>>

NextAput ==
  \E v \in PutValues, putOk, hasCallback, attrOk, cbOk \in BOOLEAN :
    Aput(v, putOk, hasCallback, attrOk, cbOk)
SpecAput == Init /\ [][NextAput]_vars

\* Every STATE_UPDATE is about a written checkpoint, and the last call was
\* not failed by its callback.
EventsOfWritten ==
  /\ \A i \in 1..Len(saver.emitted) :
       LET e == saver.emitted[i] IN
       /\ e.checkpoint \in 1..Len(saver.written)
       /\ saver.written[e.checkpoint].current_step = e.current_step
       /\ saver.written[e.checkpoint].status = e.status
       /\ \A j \in 1..Len(saver.emitted) :
            saver.emitted[j].checkpoint = e.checkpoint => j = i
  /\ saver.last.callback # "none" => saver.last.wrote
  /\ saver.last.callback = "raised" => ~saver.last.raised

\* C38: a STATE_UPDATE is emitted only for a checkpoint whose write is done,
\* one at most for a checkpoint and with the step and status written, and a
\* failing callback neither fails the call, nor undoes or repeats the write.
C38_EventAfterWrite ==
  /\ []EventsOfWritten
  /\ [][saver'.last.callback = "raised" =>
          (saver'.written = Append(saver.written, saver'.written[Len(saver'.written)])
             /\ saver'.emitted = saver.emitted)]_vars

\* A callback has raised after a checkpoint with an earlier STATE_UPDATE.
C38_Witness ==
  /\ saver.last.callback = "raised" /\ saver.last.wrote
  /\ Len(saver.written) >= 2 /\ Len(saver.emitted) >= 1

(***************************************************************************)
(* The event log of one streamed run                                       *)
(* (PureLangGraphWorkflowAgent.run and WorkflowDatabase.get_workflow_events)*)
(***************************************************************************)
\* Bound of the model: events of the run.
MaxLogged == 3

\* What datetime.now().isoformat() may give when an event is made.  It is the
\* local wall clock: two readings may be equal, and after the clock was set
\* back (end of daylight saving time, a time step) a later reading is smaller.
Stamps == {1, 2, 3}
LogTypes == {"TEXT_MESSAGE_CHUNK", "STATE_UPDATE", "HUMAN_INPUT_REQUIRED"}

\* One pass of the loop of run(): the event (made at ts) is added to
\* ag_ui_events and then yielded; when the insert raises, control goes to
\* the except branch of run().
LogEvent(type, ts, saveOk) ==
  /\ log.pc = "stream" /\ Len(log.yielded) < MaxLogged
  /\ LET e == [type |-> type, timestamp |-> ts] IN
     log' = IF saveOk
            THEN [log EXCEPT !.stored = Append(@, e), !.yielded = Append(@, e)]
            ELSE [log EXCEPT !.pc = "failed"]
  /\ UNCHANGED <<engineVars, serverVars, streamVars, now, probe, saver>>

\* The except branch of run(): a RUN_ERROR event is made at ts, a second one
\* is made at ts2 and added to ag_ui_events, then the first is yielded; when
\* the insert raises again nothing is yielded.
LogError(ts, ts2, saveOk) ==
  /\ log.pc = "failed" /\ ts <= ts2
  /\ log' = IF saveOk
            THEN [log EXCEPT !.pc = "done",
                             !.stored = Append(@, [type |-> "RUN_ERROR", timestamp |-> ts2]),
                             !.yielded = Append(@, [type |-> "RUN_ERROR", timestamp |-> ts])]
            ELSE [log EXCEPT !.pc = "done"]
  /\ UNCHANGED <<engineVars, serverVars, streamVars, now, probe, saver>>

\* The stream ends.
LogDone ==
  /\ log.pc = "stream"
  /\ log' = [log EXCEPT !.pc = "done"]
  /\ UNCHANGED <<engineVars, serverVars, streamVars, now, probe, saver>>

\* get_workflow_events: SELECT ... ORDER BY timestamp ASC.  Every order of
\* the rows with non-decreasing timestamps is a result: SQL leaves the order
\* of rows with equal timestamps open.
get_workflow_events ==
  LET n == Len(log.stored)
      orders == {f \in [1..n -> 1..n] :
                   /\ \A i, j \in 1..n : f[i] = f[j] => i = j
                   /\ \A i, j \in 1..n :
                        i < j => log.stored[f[i]].timestamp <= log.stored[f[j]].timestamp}
  IN {[i \in 1..n |-> log.stored[f[i]]] : f \in orders}

\* GET /api/workflows/{id}/events
LogRead(r) ==
  /\ log.stored # <<>> /\ r \in get_workflow_events
  /\ log' = [log EXCEPT !.read = r]
  /\ UNCHANGED <<engineVars, serverVars, streamVars, now, probe, saver>>

NextLog ==
  \/ \E type \in LogTypes, ts \in Stamps, saveOk \in BOOLEAN : LogEvent(type, ts, saveOk)
  \/ \E ts, ts2 \in Stamps, saveOk \in BOOLEAN : LogError(ts, ts2, saveOk)
  \/ LogDone
  \/ \E r \in get_workflow_events : LogRead(r)
SpecLog == Init /\ [][NextLog]_vars

\* The types of a sequence of events.
Types(q) == [i \in 1..Len(q) |-> q[i].type]

\* Every event yielded so far was saved first, in the order of the yields.
SavedBeforeYielded == Types(log.yielded) = Types(log.stored)

\* C39: the event log is faithful to the stream: every event run() has
\* yielded was written to the log before, and get_workflow_events returns the
\* events in the order in which they were emitted.
C39_LogFaithful ==
  /\ SavedBeforeYielded
  /\ IsPrefix(Types(log.read), Types(log.yielded))

\* Every event yielded was written to the log before.
C39_SavedBeforeYielded == SavedBeforeYielded

\* When every event was made at a later reading of the clock than the one
\* before it, the events are returned in the order of their emission.
C39_OrderedWhenClockAdvances ==
  (\A i \in 1..(Len(log.stored) - 1) :
      log.stored[i].timestamp < log.stored[i + 1].timestamp)
    => IsPrefix(log.read, log.stored)

(***************************************************************************)
(* The rules, on one extracted_data at a time                              *)
(***************************************************************************)
\* The reasons name this message.
Says(reasons, msg) == \E i \in 1..Len(reasons) : reasons[i].msg = msg
\* The key is absent, null or empty.
Lacks(d, k) == ~Has(d, k) \/ Get(d, k) = None \/ Get(d, k) = Str(<<>>)

\* The router has decided on a dict with a total_amount.
InvoiceShaped ==
  /\ probe.pc \in {"routed", "reviewed", "finalized"}
  /\ ~probe.data.isNone /\ Has(probe.data.items, "total_amount")

\* The reasons of the router, and those the review node recorded, name the
\* missing vendor name and the missing invoice ID exactly when they lack.
VendorAndInvoiceIdNamed ==
  /\ Says(probe.reasons, "Missing vendor name") <=> Lacks(probe.data.items, "vendor_name")
  /\ Says(probe.reasons, "Missing invoice ID") <=> Lacks(probe.data.items, "invoice_id")
  /\ probe.pc = "reviewed" =>
       /\ Says(probe.reason.parts, "Missing vendor name")
            <=> Lacks(probe.data.items, "vendor_name")
       /\ Says(probe.reason.parts, "Missing invoice ID")
            <=> Lacks(probe.data.items, "invoice_id")

\* C32 as stated: for every dict with a total_amount, the reasons contain
\* "Missing vendor name" iff vendor_name is absent, null or empty, and
\* "Missing invoice ID" iff invoice_id is absent, null or empty.
C32_EveryInvoiceShaped == InvoiceShaped => VendorAndInvoiceIdNamed

\* C32, amended: the same for every dict with a total_amount and without the
\* extraction-error marker.
C32_InvoiceRules ==
  (InvoiceShaped /\ ~Has(probe.data.items, "error")) => VendorAndInvoiceIdNamed

\* An invoice without vendor name and with an invoice ID has been reviewed.
C32_Witness ==
  /\ InvoiceShaped /\ ~Has(probe.data.items, "error") /\ probe.pc = "reviewed"
  /\ Get(probe.data.items, "vendor_name") = Str(<<>>)
  /\ ~Lacks(probe.data.items, "invoice_id")
  /\ Says(probe.reason.parts, "Missing vendor name")


\* The rules are through with a dict that has a sentiment, no total_amount and
\* no error marker.
TicketShaped ==
  /\ probe.pc \in {"raised", "reviewed", "finalized"}
  /\ ~probe.data.isNone /\ Has(probe.data.items, "sentiment")
  /\ ~Has(probe.data.items, "total_amount") /\ ~Has(probe.data.items, "error")

\* sentiment equals "irate" ignoring case; topic contains "security" or
\* "vulnerability" ignoring case.
IsIrate(d) == Get(d, "sentiment").t = "str" /\ Lower(Get(d, "sentiment").s) = Irate
IsSecurity(d) ==
  /\ Get(d, "topic").t = "str"
  /\ \/ Contains(Lower(Get(d, "topic").s), Security)
     \/ Contains(Lower(Get(d, "topic").s), Vulnerability)

\* The run is suspended with each of the two reasons exactly when its rule is
\* broken, and is finalized when neither is.
TicketRulesApplied ==
  LET d == probe.data.items IN
  /\ probe.pc = "reviewed" <=> (IsIrate(d) \/ IsSecurity(d))
  /\ probe.pc = "finalized" <=> ~(IsIrate(d) \/ IsSecurity(d))
  /\ probe.pc = "reviewed" =>
       /\ probe.status = "pending_review"
       /\ Says(probe.reason.parts, "Customer sentiment is irate") <=> IsIrate(d)
       /\ Says(probe.reason.parts, "Security-related issue") <=> IsSecurity(d)
  /\ probe.pc = "finalized" => probe.status = "finalized"

\* C33: every support ticket (sentiment present, total_amount absent) is
\* suspended in pending_review with the irate reason iff its sentiment is
\* "irate" ignoring case and with the security reason iff its topic contains
\* "security" or "vulnerability" ignoring case, and is finalized with neither.
C33_TicketRules == TicketShaped => TicketRulesApplied

\* The same for tickets whose sentiment is a text and whose topic is a text
\* or absent.
C33_TextTickets ==
  (/\ TicketShaped
   /\ Get(probe.data.items, "sentiment").t = "str"
   /\ Has(probe.data.items, "topic") => Get(probe.data.items, "topic").t = "str")
    => TicketRulesApplied


\* C36 needs the reasons as sets of messages.
Messages(reasons) == {reasons[i] : i \in 1..Len(reasons)}

\* C36: the router and the review node agree: on every extracted data the
\* router sends to review, the review node does not raise and records the
\* rule violations that made the router decide, never the fallback text.
C36_RouterAndReviewAgree ==
  (probe.next = "await_human_review" /\ probe.pc \in {"raised", "reviewed"}
     /\ ~NoValidData(probe.data))
    => /\ probe.pc = "reviewed"
       /\ Messages(probe.reason.parts) = Messages(probe.reasons)
       /\ ~Says(probe.reason.parts, "Unknown validation issue")

\* The same for the rules of the processor alone.
C36_ProcessorAgrees == probe.rules = "processor" => C36_RouterAndReviewAgree

\* The same for the engine on amounts that are numbers.
C36_EngineAgreesOnNumbers ==
  (probe.rules = "engine" /\ Get(probe.data.items, "total_amount").t # "str")
    => C36_RouterAndReviewAgree


\* The rules are through with a dict that has no error marker.
RulesDone ==
  /\ probe.pc \in {"raised", "reviewed", "finalized"}
  /\ ~NoValidData(probe.data)

\* C37: the rule families have a fixed precedence: a dict with total_amount
\* and sentiment gets the invoice rules only (its sentiment and topic give no
\* reason and are not even read), and the reasons of the scan for empty
\* fields are given only to dicts with neither key.
C37_InvoiceRulesFirst ==
  RulesDone =>
    LET d == probe.data.items
        all == probe.reasons \o probe.reason.parts
    IN
    /\ (Has(d, "total_amount") /\ Has(d, "sentiment")) =>
         /\ probe.raisedIn # "validation_router"
         /\ ~Says(all, "Customer sentiment is irate")
         /\ ~Says(all, "Security-related issue")
         /\ \A i \in 1..Len(all) :
              all[i].msg \in {"Missing vendor name", "Missing invoice ID",
                              "Amount exceeds $1000 threshold", "Invalid amount format",
                              "Unknown validation issue"}
    /\ (\E i \in 1..Len(all) : all[i].field # "") =>
         (~Has(d, "total_amount") /\ ~Has(d, "sentiment"))
    /\ (~Has(d, "total_amount") /\ ~Has(d, "sentiment") /\ probe.pc # "raised") =>
         (probe.next = "await_human_review" <=> \E k \in Keys(d) : Lacks(d, k))

\* An invoice has passed although it carries an irate sentiment and a
\* security topic.
C37_Witness ==
  /\ RulesDone /\ probe.pc = "finalized"
  /\ Has(probe.data.items, "total_amount")
  /\ IsIrate(probe.data.items) /\ IsSecurity(probe.data.items)


\* C35: reason_for_review is null in every state of a run before the run is
\* first in pending_review, and it is a non-empty text whenever the status is
\* pending_review; checked on every checkpoint of every thread and on the
\* state a call hands back.
C35_ReasonOnlyWithReview ==
  /\ \A id \in RunIds : \A i \in 1..Len(checkpoints[id]) :
       LET v == checkpoints[id][i].values IN
       /\ v.status = "pending_review" =>
            (~v.reason_for_review.isNone /\ v.reason_for_review.parts # <<>>)
       /\ (\A j \in 1..i : checkpoints[id][j].values.status # "pending_review")
            => v.reason_for_review = NoReason
  /\ (ret.op \in {"run", "resume"} /\ ret.ok /\ ret.values.status = "pending_review")
       => (~ret.values.reason_for_review.isNone /\ ret.values.reason_for_review.parts # <<>>)

\* A run has been through received and processing without a reason, was
\* suspended with one, and was resumed and is finalized.
C35_Witness ==
  \E id \in RunIds : \E i, j \in 1..Len(checkpoints[id]) :
    /\ i < j
    /\ checkpoints[id][i].values.status = "pending_review"
    /\ checkpoints[id][i].values.reason_for_review.parts # <<>>
    /\ checkpoints[id][j].values.status = "finalized"
    /\ \E k \in 1..(i - 1) : checkpoints[id][k].values.status = "processing"


(***************************************************************************)
(* Events and outcome of a streamed run                                    *)
(***************************************************************************)
\* The types of the events on the stream of run id: what is on its queue
\* before the end marker.
StreamTypes(id) ==
  {queue[id][i].type : i \in {j \in 1..Len(queue[id]) : \A m \in Markers(id) : j < m}}

\* The stream of an ended run tells its outcome: HUMAN_INPUT_REQUIRED for a
\* run left in pending_review, a finished event for a finalized one, never
\* both.
OutcomeTold(id) ==
  LET review == "HUMAN_INPUT_REQUIRED" \in StreamTypes(id)
      finished == StreamTypes(id) \cap {"RUN_FINISHED", "WORKFLOW_COMPLETE"} # {}
  IN /\ review <=> tasks[id].vals.status = "pending_review"
     /\ finished <=> tasks[id].vals.status = "finalized"
     /\ ~(review /\ finished)

\* C34: on the stream of a run, HUMAN_INPUT_REQUIRED is emitted exactly when
\* the run suspends in pending_review and a finished event exactly when it
\* ends finalized, and no stream holds both.
C34_EventsTellOutcome ==
  \A id \in RunIds : tasks[id].pc = "ended" => OutcomeTold(id)

\* The same for a run that is the only one, is not resumed while it streams
\* and whose task did not raise.
C34_AloneWithoutError ==
  (/\ tasks["r1"].pc = "ended" /\ tasks["r2"].pc = "none"
   /\ "RUN_ERROR" \notin StreamTypes("r1")
   /\ \A i \in 1..Len(queue["r1"]) :
        (\A m \in Markers("r1") : i < m) => queue["r1"][i].phase = "run")
    => OutcomeTold("r1")

=============================================================================
